---- MODULE Spec2Model ----
(***************************************************************************)
(* Realtime connection registry, heartbeat supervisor, broadcasters and    *)
(* WebSocket gateway of sharezin-render, as a state machine.               *)
(*                                                                         *)
(*   src/src/utils/websocket-manager.ts        ConnectionManager           *)
(*   src/src/utils/notification-broadcaster.ts broadcasters                *)
(*   src/src/routes/realtime.ts                gateway (/ws handler)       *)
(*   src/unnamed/part_008                      server start / shutdown     *)
(*                                                                         *)
(* Node runs every callback to completion, so each handler, timer callback *)
(* and exported function is one atomic action.  A "transport call" is one  *)
(* invocation of socket.send / socket.close / socket.terminate; the calls  *)
(* made by the last step are recorded in lastOp.calls, each with the       *)
(* outcome the transport produced (ok = it returned, ~ok = it raised).     *)
(***************************************************************************)
EXTENDS Integers, Sequences, FiniteSets, TLC

\* ------------------------------------------------------------- bounds
\* Number of connections the gateway accepts during a run.
MaxConns == 2

\* ------------------------------------------------- program constants
\* WebSocket readyState values; the code compares against 1 (OPEN).
OPEN == 1
CLOSING == OPEN + 1
CLOSED == OPEN + 2
\* setInterval(..., 30000) and setTimeout(..., 10000) of the heartbeat.
PingIntervalMs == 30000
PongTimeoutMs == 10000

\* ----------------------------------------------------------- universes
ConnIds == 1..MaxConns
NoUser == "undefined"
Users == {"u1", "u2"}
\* Bearer credentials: absent, failing verification, or verified for a user.
Tokens == {"none", "bad", "tok_u1", "tok_u2"}
\* Values a frame can carry as receiptId.  The registry keeps receipt ids
\* and the literal key 'notifications' in one subscription set.
ReceiptIds == {"R1", "R2", "notifications"}
EventTypes == {"item_added", "receipt_closed"}
\* Table names a legacy `table` subscription can carry.
Tables == {"x"}
\* Scenarios: what a specification records in lastOp (see Observed) and which
\* frames its peers send (see Frames).
Watches == {"registry", "heartbeat", "gateway", "notify", "receipt", "tables",
            "broadcast", "order", "evict", "janitor", "welcome", "users",
            "create", "shutdown", "unsub", "isolate"}
\* Rows prisma.notification.create persists during a run.
MaxRows == 2

VARIABLES
    connections,   \* ConnectionManager.connections: id -> [userId, subscriptions]
    nextId,        \* ids handed out so far + 1 (ids are fresh, Map order = id order)
    isAlive,       \* WebSocketConnection.isAlive, per connection object
    pingInterval,  \* per connection: the setInterval probe timer is armed
    pongTimeout,   \* per connection: a setTimeout pong timer is armed, not fired
    readyState,    \* per socket: OPEN, CLOSING (close event pending), CLOSED
    running,       \* the process has not exited
    gwUser,        \* per /ws handler closure: its `userId` variable
    supabaseChannels, \* per /ws handler closure: keys of its supabaseChannels Map
    liveChannels,  \* per closure and table: Supabase channels subscribed, not removed
    acked,         \* observer: keys whose `subscribed` reply was handed to the socket
    dropped,       \* observer: receipt ids whose `unsubscribed` reply was handed
                   \* to the socket, and no `subscribed` reply for them since
    firstMsg,      \* observer: per socket, the first message handed to it, and
                   \* whether more were handed to it after that one
    created,       \* observer: the user ids of the notification rows persisted
    shutdowns,     \* observer: per socket, the shutdown messages handed to it
    watch,         \* observer: the class of operations recorded in lastOp
    lastOp,        \* observer: the last recorded step [op, conn, arg, pre, calls]
    peerFrames     \* observer: what the peer has sent, "none" | "pings" | "other"

vars == <<connections, nextId, isAlive, pingInterval, pongTimeout, readyState,
          running, gwUser, supabaseChannels, liveChannels, acked, dropped,
          firstMsg,
          created, shutdowns, watch, lastOp, peerFrames>>

\* ------------------------------------------------------------ messages
Msg(type, a, b) == [type |-> type, a |-> a, b |-> b]
NoMsg == Msg("", "", "")
ConnectedMsg(userId) ==
    Msg("connected", IF userId # NoUser THEN "true" ELSE "false",
        IF userId # NoUser THEN userId ELSE "null")
PingMsg == Msg("ping", "", "")
PongMsg == Msg("pong", "", "")
ShutdownMsg == Msg("shutdown", "Server is shutting down. Please reconnect.", "")
ErrorMsg(text) == Msg("error", text, "")
AuthRequired == "Authentication required to subscribe to notifications"
InvalidSubscription == "Invalid subscription. Provide channel (notifications/receipt) or table"
InvalidUnsubscribe == "Invalid unsubscribe. Provide channel or table"
UnknownType == "Unknown message type"
InvalidFormat == "Invalid message format"
AlreadySubscribed == "Already subscribed to table: "
ChangeMsg(table) == Msg("change", table, "")
NotificationMsg(userId) == Msg("notification", userId, "")
ReceiptEventMsg(receiptId, event) == Msg("receipt_event", receiptId, event)

\* One transport call: fn is "send", "close" or "terminate"; ok = it returned,
\* ~ok = it raised.
Call(c, fn, msg, ok) == [conn |-> c, fn |-> fn, msg |-> msg, ok |-> ok]

\* ------------------------------------------------------------ observer
\* No action reads lastOp or peerFrames: they record what a step did.  pre is
\* the state the step started from, as far as the step's class needs it.
\* ret is what the operation returned to its caller: <<>> for nothing,
\* <<v>> for the value v.
Op(class, op, c, arg, pre, calls) ==
    [class |-> class, op |-> op, conn |-> c, arg |-> arg, pre |-> pre,
     calls |-> calls, ret |-> <<>>]
Returning(o, v) == [o EXCEPT !.ret = <<v>>]
Idle == Op("", "idle", 0, "", "", <<>>)
\* The operation classes each scenario records.
Classes == {"registry", "janitor", "connect", "heartbeat", "pong", "gateway",
            "tables", "notify", "receipt", "all", "send", "users", "create"}
Observed ==
    CASE watch = "registry" -> {"registry", "janitor", "connect"}
      [] watch = "heartbeat" -> {"heartbeat", "pong"}
      [] watch = "gateway" -> {"gateway", "pong"}
      [] watch = "tables" -> {"gateway", "pong", "connect", "tables"}
      [] watch = "broadcast" -> {"notify", "receipt", "all", "send"}
      [] watch = "order" -> {"receipt"}
      [] watch = "evict" -> {"registry", "janitor", "heartbeat"}
      [] watch = "welcome" -> Classes
      [] watch = "shutdown" -> {"registry"}
      [] watch = "unsub" -> {"receipt"}
      [] watch = "isolate" -> {"connect", "gateway", "pong", "heartbeat", "registry"}
      [] OTHER -> {watch}
\* The first message each socket was handed (send invoked), given the first
\* messages so far and the transport calls of a step.
FirstHanded(first, calls) ==
    [c \in DOMAIN first |->
       LET sends == SelectSeq(calls, LAMBDA x : x.conn = c /\ x.fn = "send")
       IN  CASE sends = <<>> -> first[c]
             [] first[c].first = NoMsg ->
                  [first |-> sends[1].msg, more |-> Len(sends) > 1]
             [] OTHER -> [first[c] EXCEPT !.more = TRUE]]
\* The shutdown messages each socket was handed (send invoked), counted up
\* to MaxShutdowns, given the count so far and the transport calls of a step.
MaxShutdowns == 2
ShutdownsHanded(count, calls) ==
    [c \in DOMAIN count |->
       LET n == Len(SelectSeq(calls, LAMBDA x : x.conn = c /\ x.fn = "send"
                                                 /\ x.msg = ShutdownMsg))
       IN  IF count[c] + n > MaxShutdowns THEN MaxShutdowns ELSE count[c] + n]
\* The "welcome" scenario takes every input of every operation and keeps,
\* instead of the last step, the first message of each socket; the
\* "shutdown" scenario counts the shutdown messages of each socket; the
\* "isolate" scenario keeps of a step only which operation it was and on
\* which connection.
Record(o) ==
    /\ lastOp' = CASE o.class \notin Observed \/ watch = "welcome" -> Idle
                   [] watch = "isolate" -> Op(o.class, o.op, o.conn, "", "", <<>>)
                   [] OTHER -> o
    /\ firstMsg' = IF watch = "welcome" THEN FirstHanded(firstMsg, o.calls)
                   ELSE firstMsg
    /\ shutdowns' = IF watch = "shutdown" THEN ShutdownsHanded(shutdowns, o.calls)
                    ELSE shutdowns
\* Inputs of an operation that changes nothing but lastOp: all of S when the
\* operation's class is recorded, one of them (the step is the same for
\* each) when it is not.
Inputs(class, S) == IF class \in Observed THEN S ELSE {CHOOSE x \in S : TRUE}

\* Pre-state of one connection.
PreOf(c) ==
    [reg |-> c \in DOMAIN connections,
     subs |-> IF c \in DOMAIN connections THEN connections[c].subscriptions ELSE {},
     alive |-> isAlive[c], timeout |-> pongTimeout[c], rs |-> readyState[c],
     tables |-> supabaseChannels[c]]
\* Pre-state of the registry: the registered ids and their sockets' states.
PreAll == [c \in DOMAIN connections |-> readyState[c]]

Conns(calls) == {calls[k].conn : k \in 1..Len(calls)}
CallsTo(calls, c) == SelectSeq(calls, LAMBDA x : x.conn = c)

\* Ids of a set in Map iteration order (insertion order = increasing id).
IdSeq(S) == SelectSeq([i \in 1..MaxConns |-> i], LAMBDA i : i \in S)

RECURSIVE Flatten(_)
Flatten(ss) == IF ss = <<>> THEN <<>> ELSE Head(ss) \o Flatten(Tail(ss))

Registered == DOMAIN connections
Allocated == 1..(nextId - 1)

\* --------------------------------------------------- ConnectionManager
\* getConnection: the entry, or nothing (the empty set stands for undefined).
getConnection(id) == {connections[i] : i \in {id} \cap DOMAIN connections}

\* Variant: the filter on conn.userId is dropped.
getConnectionsByUserId_noFilter(userId) == DOMAIN connections

getConnectionsByUserId(userId) ==
    {id \in DOMAIN connections : connections[id].userId = userId}

\* Variant: any subscription counts, whatever receipt it names.
getConnectionsByReceiptId_anySub(receiptId) ==
    {id \in DOMAIN connections : connections[id].subscriptions # {}}

getConnectionsByReceiptId(receiptId) ==
    {id \in DOMAIN connections : receiptId \in connections[id].subscriptions}

getConnectionsSubscribedToNotifications ==
    {id \in DOMAIN connections : "notifications" \in connections[id].subscriptions}

\* Variant: the timers are left running.
cleanupConnection_leavesTimers(timers, S) == timers

\* cleanupConnection: clearInterval / clearTimeout on the connections in S.
cleanupConnection(timers, S) ==
    [i \in DOMAIN timers |-> IF i \in S THEN FALSE ELSE timers[i]]

\* this.connections.delete(id) for the ids in S.
deleteConnections(conns, S) == [i \in DOMAIN conns \ S |-> conns[i]]

\* Variant: the entry is cleaned up but never deleted from the map.
removeConnection_keepsEntry(id) ==
    IF id \in DOMAIN connections
    THEN /\ pingInterval' = cleanupConnection(pingInterval, {id})
         /\ pongTimeout' = cleanupConnection(pongTimeout, {id})
         /\ UNCHANGED connections
    ELSE UNCHANGED <<connections, pingInterval, pongTimeout>>

\* Variant: removing one connection empties the registry.
removeConnection_dropsAll(id) ==
    IF id \in DOMAIN connections
    THEN /\ connections' = deleteConnections(connections, DOMAIN connections)
         /\ pingInterval' = cleanupConnection(pingInterval, {id})
         /\ pongTimeout' = cleanupConnection(pongTimeout, {id})
    ELSE UNCHANGED <<connections, pingInterval, pongTimeout>>

\* Variant: the entry is deleted while its timers stay armed.
removeConnection_skipsCleanup(id) ==
    IF id \in DOMAIN connections
    THEN /\ connections' = deleteConnections(connections, {id})
         /\ UNCHANGED <<pingInterval, pongTimeout>>
    ELSE UNCHANGED <<connections, pingInterval, pongTimeout>>

\* removeConnection(id): cleanup + delete when present, nothing otherwise.
removeConnection(id) ==
    IF id \in DOMAIN connections
    THEN /\ connections' = deleteConnections(connections, {id})
         /\ pingInterval' = cleanupConnection(pingInterval, {id})
         /\ pongTimeout' = cleanupConnection(pongTimeout, {id})
    ELSE UNCHANGED <<connections, pingInterval, pongTimeout>>

\* subscribe / unsubscribe: the registry after the call.
\* Variant: subscribing an absent id creates an entry for it.
subscribe_createsEntry(conns, id, channel) ==
    [i \in DOMAIN conns \cup {id} |->
       IF i \in DOMAIN conns
       THEN [conns[i] EXCEPT !.subscriptions =
               IF i = id THEN @ \cup {channel} ELSE @]
       ELSE [userId |-> NoUser, subscriptions |-> {channel}]]

\* subscribe / unsubscribe return true iff the id is registered.
subscribeResult(conns, id) == id \in DOMAIN conns

subscribe(conns, id, channel) ==
    IF id \in DOMAIN conns
    THEN [conns EXCEPT ![id].subscriptions = @ \cup {channel}]
    ELSE conns

\* Variant: unsubscribing leaves the key in the subscription set.
unsubscribe_keepsKey(conns, id, channel) == conns

\* Variant: unsubscribing empties the subscription set.
unsubscribe_clearsAll(conns, id, channel) ==
    IF id \in DOMAIN conns
    THEN [conns EXCEPT ![id].subscriptions = {}]
    ELSE conns

unsubscribe(conns, id, channel) ==
    IF id \in DOMAIN conns
    THEN [conns EXCEPT ![id].subscriptions = @ \ {channel}]
    ELSE conns

\* Variant: the socket is written without looking the id up in the registry.
sendToConnection_noLookup(id, message, raises) ==
    IF readyState[id] = OPEN
    THEN <<Call(id, "send", message, id \notin raises)>>
    ELSE <<>>

\* sendToConnection: socket.send is invoked iff the connection is registered
\* and its socket is OPEN; `raises` are the sockets whose send raises.
sendToConnection(id, message, raises) ==
    IF id \in DOMAIN connections /\ readyState[id] = OPEN
    THEN <<Call(id, "send", message, id \notin raises)>>
    ELSE <<>>

\* Variant: a send that raises is reported as delivered.
sendToConnectionResult_trueOnRaise(id, raises) ==
    id \in DOMAIN connections /\ readyState[id] = OPEN

\* sendToConnection's return value: true after socket.send returned, false
\* from the catch block and when the connection is absent or not OPEN.
sendToConnectionResult(id, raises) ==
    id \in DOMAIN connections /\ readyState[id] = OPEN /\ id \notin raises

RECURSIVE UpToFailure(_)
UpToFailure(calls) ==
    IF calls = <<>> THEN <<>>
    ELSE IF ~Head(calls).ok THEN <<Head(calls)>>
    ELSE <<Head(calls)>> \o UpToFailure(Tail(calls))

\* Variant: the loop ends at the first send that raises.
broadcastTo_stopsAtFailure(targets, message, raises) ==
    LET ids == IdSeq(targets)
    IN  UpToFailure(Flatten([k \in 1..Len(ids) |->
                               sendToConnection(ids[k], message, raises)]))

\* The forEach loop shared by the broadcast* methods.
broadcastTo(targets, message, raises) ==
    LET ids == IdSeq(targets)
    IN  Flatten([k \in 1..Len(ids) |-> sendToConnection(ids[k], message, raises)])

\* The count the broadcast* methods return: one per sendToConnection that
\* returned true.
broadcastCount(targets, raises) ==
    Cardinality({c \in targets : sendToConnectionResult(c, raises)})

broadcastToUser(userId, message, raises) ==
    broadcastTo(getConnectionsByUserId(userId), message, raises)

broadcastToReceipt(receiptId, message, raises) ==
    broadcastTo(getConnectionsByReceiptId(receiptId), message, raises)

broadcastToNotifications(message, raises) ==
    broadcastTo(getConnectionsSubscribedToNotifications, message, raises)

broadcastToAll(message, raises) ==
    broadcastTo(DOMAIN connections, message, raises)

\* Variant: the pending pong timeout is cleared but the flag is not set.
markConnectionAlive_cancelsOnly(id) ==
    IF id \in DOMAIN connections
    THEN /\ pongTimeout' = [pongTimeout EXCEPT ![id] = FALSE]
         /\ UNCHANGED isAlive
    ELSE UNCHANGED <<isAlive, pongTimeout>>

\* Variant: every connection is marked alive and every timeout cancelled.
markConnectionAlive_everyone(id) ==
    IF id \in DOMAIN connections
    THEN /\ isAlive' = [i \in DOMAIN isAlive |-> TRUE]
         /\ pongTimeout' = [i \in DOMAIN pongTimeout |-> FALSE]
    ELSE UNCHANGED <<isAlive, pongTimeout>>

\* Variant: the flag is set but the pending pong timeout is not cleared.
markConnectionAlive_keepsTimeout(id) ==
    IF id \in DOMAIN connections
    THEN /\ isAlive' = [isAlive EXCEPT ![id] = TRUE]
         /\ UNCHANGED pongTimeout
    ELSE UNCHANGED <<isAlive, pongTimeout>>

\* markConnectionAlive: only for a registered connection.
markConnectionAlive(id) ==
    IF id \in DOMAIN connections
    THEN /\ isAlive' = [isAlive EXCEPT ![id] = TRUE]
         /\ pongTimeout' = [pongTimeout EXCEPT ![id] = FALSE]
    ELSE UNCHANGED <<isAlive, pongTimeout>>

\* socket.terminate() / socket.close(): an OPEN socket starts closing and its
\* close event is delivered later; anything else stays as it is.
closeSocket(rs, S) ==
    [i \in DOMAIN rs |-> IF i \in S /\ rs[i] = OPEN THEN CLOSING ELSE rs[i]]

\* ------------------------------------------------------------- gateway
\* Variant: any presented credential is taken to be user u1's.
verifyToken_trustsToken(token) == IF token = "none" THEN NoUser ELSE "u1"

\* verifyToken, and the `if (token)` / `if (user)` tests around it.
verifyToken(token) ==
    CASE token = "tok_u1" -> "u1"
      [] token = "tok_u2" -> "u2"
      [] OTHER -> NoUser

InitState(observed) ==
    /\ watch = observed
    /\ connections = <<>>
    /\ nextId = 1
    /\ isAlive = [i \in ConnIds |-> TRUE]
    /\ pingInterval = [i \in ConnIds |-> FALSE]
    /\ pongTimeout = [i \in ConnIds |-> FALSE]
    /\ readyState = [i \in ConnIds |-> OPEN]
    /\ running = TRUE
    /\ gwUser = [i \in ConnIds |-> NoUser]
    /\ supabaseChannels = [i \in ConnIds |-> {}]
    /\ liveChannels = [i \in ConnIds |-> [t \in Tables |-> 0]]
    /\ acked = [i \in ConnIds |-> {}]
    /\ dropped = [i \in ConnIds |-> {}]
    /\ firstMsg = [i \in ConnIds |-> [first |-> NoMsg, more |-> FALSE]]
    /\ created = <<>>
    /\ shutdowns = [i \in ConnIds |-> 0]
    /\ lastOp = Idle
    /\ peerFrames = [i \in ConnIds |-> "none"]

\* addConnection: fresh id, empty subscription set, alive, heartbeat started.
addConnection(id, userId) ==
    /\ connections' = [i \in DOMAIN connections \cup {id} |->
                         IF i = id THEN [userId |-> userId, subscriptions |-> {}]
                         ELSE connections[i]]
    /\ isAlive' = [isAlive EXCEPT ![id] = TRUE]
    /\ pingInterval' = [pingInterval EXCEPT ![id] = TRUE]
    /\ pongTimeout' = [pongTimeout EXCEPT ![id] = FALSE]

\* The credentials peers present in each scenario (users are
\* interchangeable; the "tables" scenario has one).
ConnectTokens ==
    CASE watch \in {"tables", "welcome"} -> Tokens \ {"tok_u2"}
      [] watch \in {"evict", "janitor", "create", "shutdown", "unsub", "isolate"} ->
           {"none", "tok_u1"}
      [] OTHER -> Tokens

\* Variant: no welcome message is sent.
welcome_none(id, userId) == <<>>

\* The welcome message: connection.socket.send of `connected`.
welcome(id, userId) == <<Call(id, "send", ConnectedMsg(userId), TRUE)>>

\* GET /ws: authenticate (optional), register, send the welcome message.
Connect ==
    /\ running
    /\ nextId <= MaxConns
    /\ \E token \in ConnectTokens :
         LET id == nextId
             userId == verifyToken(token)
         IN  /\ addConnection(id, userId)
             /\ nextId' = nextId + 1
             /\ gwUser' = [gwUser EXCEPT ![id] = userId]
             /\ Record(Op("connect", "connect", id, token, PreOf(id),
                          welcome(id, userId)))
    /\ UNCHANGED <<readyState, running, supabaseChannels, liveChannels,
                   acked, dropped, created, watch, peerFrames>>

\* Inbound frames.  json = FALSE is a frame JSON.parse rejects; value is
\* the kind of JSON value a parseable frame holds ("null": reading data.type
\* raises a TypeError, which the handler's catch block receives).
Frame(json, type, channel, receiptId) ==
    [json |-> json, value |-> "object", type |-> type, channel |-> channel,
     receiptId |-> receiptId, table |-> ""]
Unparseable == Frame(FALSE, "", "", "")
NullFrame == [Frame(TRUE, "", "", "") EXCEPT !.value = "null"]
TableFrame(type, table) == [Frame(TRUE, type, "", "") EXCEPT !.table = table]
Raises(f) == ~f.json \/ f.value = "null"
CommonFrames ==
    {Unparseable, NullFrame, Frame(TRUE, "ping", "", ""), Frame(TRUE, "pong", "", "")}
    \cup {Frame(TRUE, t, "notifications", "") : t \in {"subscribe", "unsubscribe"}}
    \cup {Frame(TRUE, t, "", "") : t \in {"subscribe", "unsubscribe"}}
ReceiptFrames(ids) ==
    {Frame(TRUE, t, "receipt", r) : t \in {"subscribe", "unsubscribe"}, r \in ids}
\* A subscribe frame naming the channel "resource".
ResourceFrame == Frame(TRUE, "subscribe", "resource", "R1")
TableFrames ==
    {TableFrame(t, x) : t \in {"subscribe", "unsubscribe"}, x \in Tables}
\* The frames the peers send in each scenario.  The table subscriptions live
\* in the handler's closure (supabaseChannels) and are read by no registry,
\* heartbeat or broadcaster code, so only the scenarios about them send
\* table frames.  Receipt ids are opaque keys to the gateway and the registry; a
\* scenario names as many of them as its properties distinguish.
FrameReceiptIds ==
    CASE watch \in {"tables", "broadcast", "order", "evict", "janitor",
                    "welcome", "users", "create", "shutdown", "unsub",
                    "isolate"} -> {"R1"}
      [] watch = "gateway" -> {"R1", "notifications"}
      [] OTHER -> ReceiptIds
Frames ==
    CommonFrames \cup ReceiptFrames(FrameReceiptIds)
        \cup (IF watch \in {"tables", "evict", "welcome", "isolate"}
              THEN TableFrames ELSE {})
        \cup (IF watch = "tables" THEN {ResourceFrame} ELSE {})
IsPing(f) == f.json /\ f.type = "ping"

\* The reply the message handler passes to socket.send.
gatewayReply_errorOnReceipt(f, userId, tables) ==
    IF Raises(f) THEN ErrorMsg(InvalidFormat) ELSE ErrorMsg(InvalidSubscription)

\* Variant: a frame of unknown type gets no reply.
gatewayReply_silentOnUnknown(f, userId, tables) ==
    IF Raises(f) THEN ErrorMsg(InvalidFormat) ELSE NoMsg

\* NoMsg: the handler returns without sending.
gatewayReply(f, userId, tables) ==
    CASE Raises(f) -> ErrorMsg(InvalidFormat)
      [] f.type = "ping" -> PongMsg
      [] f.type = "subscribe" /\ f.channel = "notifications" ->
           IF userId = NoUser THEN ErrorMsg(AuthRequired)
           ELSE Msg("subscribed", "notifications", "")
      [] f.type = "subscribe" /\ f.channel = "receipt" /\ f.receiptId # "" ->
           Msg("subscribed", "receipt", f.receiptId)
      [] f.type = "subscribe" /\ f.table # "" ->
           IF f.table \in tables THEN Msg("error", AlreadySubscribed, f.table)
           ELSE Msg("subscribed", "table", f.table)
      [] f.type = "subscribe" -> ErrorMsg(InvalidSubscription)
      [] f.type = "unsubscribe" /\ f.channel = "notifications" ->
           Msg("unsubscribed", "notifications", "")
      [] f.type = "unsubscribe" /\ f.channel = "receipt" /\ f.receiptId # "" ->
           Msg("unsubscribed", "receipt", f.receiptId)
      [] f.type = "unsubscribe" /\ f.table # "" ->
           IF f.table \in tables THEN Msg("unsubscribed", "table", f.table)
           ELSE NoMsg
      [] f.type = "unsubscribe" -> ErrorMsg(InvalidUnsubscribe)
      [] OTHER -> ErrorMsg(UnknownType)

\* Variant: the notifications branch subscribes without looking at userId.
gatewaySubscriptions_noAuthCheck(conns, c, f, userId) ==
    CASE Raises(f) -> conns
      [] f.type = "subscribe" /\ f.channel = "notifications" ->
           subscribe(conns, c, "notifications")
      [] f.type = "subscribe" /\ f.channel = "receipt" /\ f.receiptId # "" ->
           subscribe(conns, c, f.receiptId)
      [] f.type = "unsubscribe" /\ f.channel = "notifications" ->
           unsubscribe(conns, c, "notifications")
      [] f.type = "unsubscribe" /\ f.channel = "receipt" /\ f.receiptId # "" ->
           unsubscribe(conns, c, f.receiptId)
      [] OTHER -> conns

\* The registry after the handler's connectionManager.subscribe/unsubscribe call.
gatewaySubscriptions(conns, c, f, userId) ==
    CASE Raises(f) -> conns
      [] f.type = "subscribe" /\ f.channel = "notifications" ->
           IF userId = NoUser THEN conns ELSE subscribe(conns, c, "notifications")
      [] f.type = "subscribe" /\ f.channel = "receipt" /\ f.receiptId # "" ->
           subscribe(conns, c, f.receiptId)
      [] f.type = "unsubscribe" /\ f.channel = "notifications" ->
           unsubscribe(conns, c, "notifications")
      [] f.type = "unsubscribe" /\ f.channel = "receipt" /\ f.receiptId # "" ->
           unsubscribe(conns, c, f.receiptId)
      [] OTHER -> conns

\* The handler calls connectionManager.subscribe or unsubscribe.
gatewayCallsRegistry(f, userId) ==
    /\ ~Raises(f)
    /\ \/ f.type = "subscribe" /\ f.channel = "notifications" /\ userId # NoUser
       \/ f.type = "subscribe" /\ f.channel = "receipt" /\ f.receiptId # ""
       \/ f.type = "unsubscribe" /\ f.channel = "notifications"
       \/ f.type = "unsubscribe" /\ f.channel = "receipt" /\ f.receiptId # ""

\* The class a frame's handling is recorded under.
FrameClass(f) ==
    CASE f.json /\ f.type = "ping" -> "heartbeat"
      [] f.json /\ f.type = "pong" -> "pong"
      [] OTHER -> "gateway"

\* The handler's liveness step: `ping` frames call markConnectionAlive.
gatewayMarksAlive(f) == f.json /\ f.type = "ping"

IsTableFrame(f, type) ==
    ~Raises(f) /\ f.type = type /\ f.channel = "" /\ f.table # ""

\* Variant: a duplicate subscribe drops the table from the Map.
gatewayTables_dropOnDuplicate(tables, f) ==
    CASE IsTableFrame(f, "subscribe") /\ f.table \in tables -> tables \ {f.table}
      [] IsTableFrame(f, "subscribe") -> tables \cup {f.table}
      [] IsTableFrame(f, "unsubscribe") -> tables \ {f.table}
      [] OTHER -> tables

\* The closure's supabaseChannels Map after the handler.
gatewayTables(tables, f) ==
    CASE IsTableFrame(f, "subscribe") -> tables \cup {f.table}
      [] IsTableFrame(f, "unsubscribe") -> tables \ {f.table}
      [] OTHER -> tables

\* Variant: a table subscribe opens a channel without looking at the Map.
gatewayLive_noDuplicateCheck(live, tables, f) ==
    CASE IsTableFrame(f, "subscribe") -> [live EXCEPT ![f.table] = @ + 1]
      [] IsTableFrame(f, "unsubscribe") /\ f.table \in tables ->
           [live EXCEPT ![f.table] = @ - 1]
      [] OTHER -> live

\* The Supabase channels of the closure after the handler: subscribe opens
\* one (.channel().on().subscribe()) unless the Map has the key, unsubscribe
\* removes the one the Map holds (supabase.removeChannel).
gatewayLive(live, tables, f) ==
    CASE IsTableFrame(f, "subscribe") /\ f.table \notin tables ->
           [live EXCEPT ![f.table] = @ + 1]
      [] IsTableFrame(f, "unsubscribe") /\ f.table \in tables ->
           [live EXCEPT ![f.table] = @ - 1]
      [] OTHER -> live

\* The subscription key a frame names.
KeyOf(f) == IF f.channel = "notifications" THEN "notifications" ELSE f.receiptId
\* Keys whose `subscribed` reply has been handed to the socket since the key
\* was last subscribed.
gatewayAcked(keys, f, reply) ==
    CASE reply.type = "subscribed" /\ f.table = "" -> keys \cup {KeyOf(f)}
      [] reply.type = "unsubscribed" /\ f.table = "" -> keys \ {KeyOf(f)}
      [] OTHER -> keys

\* Receipt ids whose `unsubscribed` reply was the last acknowledgement for
\* them handed to the socket.
gatewayDropped(keys, reply) ==
    CASE reply.type = "unsubscribed" /\ reply.a = "receipt" -> keys \cup {reply.b}
      [] reply.type = "subscribed" /\ reply.a = "receipt" -> keys \ {reply.b}
      [] OTHER -> keys

\* connection.on('message'): one inbound frame on connection c.
HandleMessage ==
    /\ running
    /\ \E c \in Allocated, f \in Frames :
         /\ readyState[c] = OPEN
         /\ IF gatewayMarksAlive(f)
            THEN markConnectionAlive(c)
            ELSE UNCHANGED <<isAlive, pongTimeout>>
         /\ connections' = gatewaySubscriptions(connections, c, f, gwUser[c])
         /\ peerFrames' =
              IF watch # "heartbeat" THEN peerFrames
              ELSE [peerFrames EXCEPT ![c] =
                      IF ~IsPing(f) THEN "other"
                      ELSE IF @ = "none" THEN "pings" ELSE @]
         /\ supabaseChannels' =
              [supabaseChannels EXCEPT ![c] = gatewayTables(@, f)]
         /\ liveChannels' =
              [liveChannels EXCEPT ![c] = gatewayLive(@, supabaseChannels[c], f)]
         /\ LET reply == gatewayReply(f, gwUser[c], supabaseChannels[c])
            IN  /\ acked' = IF watch # "order" THEN acked
                            ELSE [acked EXCEPT ![c] = gatewayAcked(@, f, reply)]
                /\ dropped' = IF watch # "unsub" THEN dropped
                              ELSE [dropped EXCEPT ![c] = gatewayDropped(@, reply)]
                /\ Record([Op(FrameClass(f), "message", c, f, PreOf(c),
                              IF reply = NoMsg THEN <<>>
                              ELSE <<Call(c, "send", reply, TRUE)>>)
                           EXCEPT !.ret =
                             IF gatewayCallsRegistry(f, gwUser[c])
                             THEN <<subscribeResult(connections, c)>>
                             ELSE <<>>])
    /\ UNCHANGED <<nextId, pingInterval, readyState, running, gwUser, created,
                   watch>>

\* --------------------------------------------------- heartbeat supervisor
\* Variant: the socket is terminated but the entry is kept.
evict_terminateOnly(c, op) ==
    /\ UNCHANGED <<connections, pingInterval, pongTimeout>>
    /\ readyState' = closeSocket(readyState, {c})
    /\ Record(Op("heartbeat", op, c, "evict", PreOf(c),
                 <<Call(c, "terminate", NoMsg, TRUE)>>))

\* A timer callback that ends in removeConnection + socket.terminate().
evict(c, op) ==
    /\ removeConnection(c)
    /\ readyState' = closeSocket(readyState, {c})
    /\ Record(Op("heartbeat", op, c, "evict", PreOf(c),
                 <<Call(c, "terminate", NoMsg, TRUE)>>))

\* The setInterval callback of startHeartbeatForConnection.  The pong timeout
\* armed by a tick expires PongTimeoutMs later, before the next tick
\* (PingIntervalMs later), so a tick never finds that timeout still armed.
HeartbeatTick ==
    /\ running
    /\ \E c \in Allocated, raise \in BOOLEAN :
         /\ pingInterval[c]
         /\ (PongTimeoutMs < PingIntervalMs) => ~pongTimeout[c]
         /\ IF ~isAlive[c]
            THEN /\ ~raise
                 /\ evict(c, "tick")
                 /\ UNCHANGED isAlive
            ELSE /\ isAlive' = [isAlive EXCEPT ![c] = FALSE]
                 /\ IF readyState[c] # OPEN
                    THEN /\ ~raise
                         /\ Record(Op("heartbeat", "tick", c, "skip", PreOf(c), <<>>))
                         /\ UNCHANGED <<connections, pingInterval, pongTimeout>>
                    ELSE IF raise
                    THEN /\ removeConnection(c)
                         /\ Record(Op("heartbeat", "tick", c, "sendfail", PreOf(c),
                                      <<Call(c, "send", PingMsg, FALSE)>>))
                    ELSE /\ pongTimeout' = [pongTimeout EXCEPT ![c] = TRUE]
                         /\ Record(Op("heartbeat", "tick", c, "probe", PreOf(c),
                                      <<Call(c, "send", PingMsg, TRUE)>>))
                         /\ UNCHANGED <<connections, pingInterval>>
                 /\ UNCHANGED readyState
    /\ UNCHANGED <<nextId, running, gwUser, supabaseChannels, liveChannels,
                   acked, dropped, created, watch, peerFrames>>

\* The setTimeout callback armed after a probe.
PongTimeoutFires ==
    /\ running
    /\ \E c \in Allocated :
         /\ pongTimeout[c]
         /\ IF ~isAlive[c]
            THEN evict(c, "pongTimeout")
            ELSE /\ pongTimeout' = [pongTimeout EXCEPT ![c] = FALSE]
                 /\ Record(Op("heartbeat", "pongTimeout", c, "alive", PreOf(c), <<>>))
                 /\ UNCHANGED <<connections, pingInterval, readyState>>
    /\ UNCHANGED <<nextId, isAlive, running, gwUser, supabaseChannels, liveChannels,
                   acked, dropped, created, watch, peerFrames>>

\* Variant: only sockets that have finished closing count as dead.
janitorDead_closedOnly == {c \in DOMAIN connections : readyState[c] = CLOSED}

\* The connections the janitor's test `conn.socket.readyState !== 1` selects.
janitorDead == {c \in DOMAIN connections : readyState[c] # OPEN}

\* startHeartbeat: the global 60 s pass removing connections whose socket is
\* not OPEN.
Janitor ==
    /\ running
    /\ LET dead == janitorDead
       IN  /\ connections' = deleteConnections(connections, dead)
           /\ pingInterval' = cleanupConnection(pingInterval, dead)
           /\ pongTimeout' = cleanupConnection(pongTimeout, dead)
           /\ Record(Op("janitor", "janitor", 0, dead, PreAll, <<>>))
    /\ UNCHANGED <<nextId, isAlive, readyState, running, gwUser, supabaseChannels, liveChannels,
                   acked, dropped, created, watch, peerFrames>>

\* ------------------------------------------------------ transport events
\* The peer or the network starts closing an open socket; its close event
\* is delivered later.
SocketCloses ==
    /\ running
    /\ \E c \in Allocated :
         /\ readyState[c] = OPEN
         /\ readyState' = [readyState EXCEPT ![c] = CLOSING]
         /\ Record(Idle)
    /\ UNCHANGED <<connections, nextId, isAlive, pingInterval, pongTimeout,
                   running, gwUser, supabaseChannels, liveChannels,
                   acked, dropped, created, watch, peerFrames>>

\* supabaseChannels.forEach(supabase.removeChannel).
removeChannels(live, tables) ==
    [t \in DOMAIN live |-> IF t \in tables THEN live[t] - 1 ELSE live[t]]

\* connection.on('close'): the closure's channels are removed, the Map
\* cleared, the connection unregistered.
CloseEvent ==
    /\ running
    /\ \E c \in Allocated :
         /\ readyState[c] = CLOSING
         /\ readyState' = [readyState EXCEPT ![c] = CLOSED]
         /\ removeConnection(c)
         /\ liveChannels' = [liveChannels EXCEPT ![c] = removeChannels(@, supabaseChannels[c])]
         /\ supabaseChannels' = [supabaseChannels EXCEPT ![c] = {}]
         /\ Record(Op("registry", "close", c, "", PreOf(c), <<>>))
    /\ UNCHANGED <<nextId, isAlive, running, gwUser, acked, dropped, created, watch, peerFrames>>

\* connection.on('error'): the transport reports an error on a socket that
\* is open or closing, and closes after it.
ErrorEvent ==
    /\ running
    /\ \E c \in Allocated :
         /\ readyState[c] \in {OPEN, CLOSING}
         /\ readyState' = [readyState EXCEPT ![c] = CLOSING]
         /\ removeConnection(c)
         /\ Record(Op("registry", "error", c, "", PreOf(c), <<>>))
    /\ UNCHANGED <<nextId, isAlive, running, gwUser, supabaseChannels, liveChannels,
                   acked, dropped, created, watch, peerFrames>>

\* The postgres_changes callback of a table subscription: a change on table
\* t reaches every channel connection c's closure holds for t, and each
\* forwards it with connection.socket.send.
SupabaseChange ==
    /\ running
    /\ Allocated # {}
    /\ \E c \in Inputs("tables", Allocated), t \in Inputs("tables", Tables) :
         Record(Op("tables", "change", c, t, PreOf(c),
                   [k \in 1..liveChannels[c][t] |->
                      Call(c, "send", ChangeMsg(t), TRUE)]))
    /\ UNCHANGED <<connections, nextId, isAlive, pingInterval, pongTimeout,
                   readyState, running, gwUser, supabaseChannels, liveChannels,
                   acked, dropped, created, watch, peerFrames>>

\* ---------------------------------------------------------- broadcasters
\* The sets of sockets whose send may raise during an operation of a class.
Faults(class) == Inputs(class, {{}} \cup SUBSET DOMAIN connections)
OnlyObserved ==
    UNCHANGED <<connections, nextId, isAlive, pingInterval, pongTimeout,
                readyState, running, gwUser, supabaseChannels, liveChannels,
                   acked, dropped, created, watch, peerFrames>>

\* Variant: the `if (!notification.userId) return` guard is missing.
broadcastNotification_noGuard(userId, raises) ==
    broadcastToUser(userId, NotificationMsg(userId), raises)

\* broadcastNotification(notification): nothing without a userId.
broadcastNotification(userId, raises) ==
    IF userId = NoUser THEN <<>>
    ELSE broadcastToUser(userId, NotificationMsg(userId), raises)

BroadcastNotification ==
    /\ running
    /\ \E userId \in Inputs("notify", Users \cup {NoUser}), raises \in Faults("notify") :
         LET calls == broadcastNotification(userId, raises)
         IN  /\ raises \subseteq Conns(calls)
             /\ Record([Op("notify", "broadcastNotification", 0, userId, PreAll,
                            calls)
                          EXCEPT !.ret =
                            IF userId = NoUser THEN <<>>
                            ELSE <<broadcastCount(getConnectionsByUserId(userId),
                                                  raises)>>])
    /\ OnlyObserved

\* broadcastNotificationToAll(notification).
BroadcastNotificationToAll ==
    /\ running
    /\ \E userId \in Inputs("notify", Users), raises \in Faults("notify") :
         LET calls == broadcastToNotifications(NotificationMsg(userId), raises)
         IN  /\ raises \subseteq Conns(calls)
             /\ Record(Returning(
                    Op("notify", "broadcastNotificationToAll", 0, userId, PreAll,
                       calls),
                    broadcastCount(getConnectionsSubscribedToNotifications, raises)))
    /\ OnlyObserved

\* broadcastReceiptEvent(receiptId, event, data).
broadcastReceiptEvent(receiptId, event, raises) ==
    broadcastToReceipt(receiptId, ReceiptEventMsg(receiptId, event), raises)

BroadcastReceiptEvent ==
    /\ running
    /\ \E receiptId \in Inputs("receipt", ReceiptIds),
          event \in Inputs("receipt", EventTypes), raises \in Faults("receipt") :
         LET calls == broadcastReceiptEvent(receiptId, event, raises)
         IN  /\ raises \subseteq Conns(calls)
             /\ Record(Returning(
                    Op("receipt", "broadcastReceiptEvent", 0,
                       [receiptId |-> receiptId, event |-> event], PreAll, calls),
                    broadcastCount(getConnectionsByReceiptId(receiptId), raises)))
    /\ OnlyObserved

\* The userIds arrays passed to broadcastReceiptEventToUsers.
UserLists ==
    {<<>>} \cup {<<u>> : u \in Users} \cup {<<u, v>> : u \in Users, v \in Users}

\* Variant: the event goes to the subscribers of the receipt.
broadcastReceiptEventToUsers_bySubscription(userIds, receiptId, event, raises) ==
    broadcastToReceipt(receiptId, ReceiptEventMsg(receiptId, event), raises)

\* broadcastReceiptEventToUsers: one broadcastToUser per element of userIds.
broadcastReceiptEventToUsers(userIds, receiptId, event, raises) ==
    Flatten([k \in 1..Len(userIds) |->
               broadcastToUser(userIds[k], ReceiptEventMsg(receiptId, event), raises)])

\* Its return value: sent++ for every element whose broadcastToUser returned
\* more than 0.
broadcastReceiptEventToUsersResult(userIds, raises) ==
    Cardinality({k \in 1..Len(userIds) :
                   broadcastCount(getConnectionsByUserId(userIds[k]), raises) > 0})

BroadcastReceiptEventToUsers ==
    /\ running
    /\ \E userIds \in Inputs("users", UserLists),
          receiptId \in Inputs("users", {"R1"}),
          event \in Inputs("users", {"item_added"}), raises \in Faults("users") :
         LET calls == broadcastReceiptEventToUsers(userIds, receiptId, event, raises)
         IN  /\ raises \subseteq Conns(calls)
             /\ Record(Returning(
                    Op("users", "broadcastReceiptEventToUsers", 0,
                       [userIds |-> userIds, receiptId |-> receiptId,
                        event |-> event],
                       PreAll, calls),
                    broadcastReceiptEventToUsersResult(userIds, raises)))
    /\ OnlyObserved

\* createNotification, from the point where prisma.notification.create has
\* settled.  persisted = it resolved with the row; otherwise it rejected and
\* the function rejects with it.  raise = the try block raises before the
\* broadcaster has sent anything.
\* Variant: the push does not wait for the row.
createNotificationCalls_pushAnyway(userId, persisted, raise, raises) ==
    IF raise THEN <<>> ELSE broadcastNotification(userId, raises)

createNotificationCalls(userId, persisted, raise, raises) ==
    IF persisted /\ ~raise THEN broadcastNotification(userId, raises) ELSE <<>>

\* The notification table after the call.
createNotificationRows(rows, userId, persisted) ==
    IF persisted THEN Append(rows, userId) ELSE rows

\* What the caller gets: the row (its user id and position), or nothing when
\* the function rejected.
createNotificationResult(rows, userId, persisted) ==
    IF persisted THEN <<[userId |-> userId, row |-> Len(rows) + 1]>> ELSE <<>>

CreateNotification ==
    /\ running
    /\ Len(created) < MaxRows
    /\ \E userId \in Inputs("create", Users), persisted \in Inputs("create", BOOLEAN),
          raise \in Inputs("create", BOOLEAN), raises \in Faults("create") :
         LET calls == createNotificationCalls(userId, persisted, raise, raises)
         IN  /\ raises \subseteq Conns(calls)
             /\ created' = IF watch = "create"
                            THEN createNotificationRows(created, userId, persisted)
                            ELSE created
             /\ Record([Op("create", "createNotification", 0,
                            [userId |-> userId, persisted |-> persisted,
                             raise |-> raise],
                            [rows |-> created, open |-> PreAll], calls)
                          EXCEPT !.ret =
                            createNotificationResult(created, userId, persisted)])
    /\ UNCHANGED <<connections, nextId, isAlive, pingInterval, pongTimeout,
                   readyState, running, gwUser, supabaseChannels, liveChannels,
                   acked, dropped, watch, peerFrames>>

\* A message of the application, for the methods no broadcaster wraps.
AppMsg == Msg("message", "", "")

\* connectionManager.broadcastToAll(message).
BroadcastToAll ==
    /\ running
    /\ \E raises \in Faults("all") :
         LET calls == broadcastToAll(AppMsg, raises)
         IN  /\ raises \subseteq Conns(calls)
             /\ Record(Returning(Op("all", "broadcastToAll", 0, "", PreAll, calls),
                                 broadcastCount(DOMAIN connections, raises)))
    /\ OnlyObserved

\* connectionManager.sendToConnection(connectionId, message), for any id.
SendToConnection ==
    /\ running
    /\ \E id \in Inputs("send", ConnIds), raise \in Inputs("send", {FALSE, TRUE}) :
         LET raises == IF raise THEN {id} ELSE {}
             calls == sendToConnection(id, AppMsg, raises)
         IN  /\ raises \subseteq Conns(calls)
             /\ Record(Returning(
                    Op("send", "sendToConnection", id, "", PreOf(id), calls),
                    sendToConnectionResult(id, raises)))
    /\ OnlyObserved

\* ---------------------------------------------------------------- shutdown
\* Variant: the socket is closed first and the shutdown message sent after.
closeAllCalls_closeFirst(sendRaises, closeRaises) ==
    LET ids == IdSeq(DOMAIN connections)
        one(c) == IF readyState[c] # OPEN THEN <<>>
                  ELSE <<Call(c, "close", NoMsg, c \notin closeRaises),
                         Call(c, "send", ShutdownMsg, c \notin sendRaises)>>
    IN  Flatten([k \in 1..Len(ids) |-> one(ids[k])])

\* Variant: the loop ends at the first send or close that raises.
closeAllCalls_stopsAtFailure(sendRaises, closeRaises) ==
    LET ids == IdSeq(DOMAIN connections)
        one(c) == IF readyState[c] # OPEN THEN <<>>
                  ELSE IF c \in sendRaises
                  THEN <<Call(c, "send", ShutdownMsg, FALSE)>>
                  ELSE <<Call(c, "send", ShutdownMsg, TRUE),
                         Call(c, "close", NoMsg, c \notin closeRaises)>>
    IN  UpToFailure(Flatten([k \in 1..Len(ids) |-> one(ids[k])]))

\* closeAllConnections: per connection, when its socket is OPEN, send the
\* shutdown message and then close; a raising send skips the close.
closeAllCalls(sendRaises, closeRaises) ==
    LET ids == IdSeq(DOMAIN connections)
        one(c) == IF readyState[c] # OPEN THEN <<>>
                  ELSE IF c \in sendRaises
                  THEN <<Call(c, "send", ShutdownMsg, FALSE)>>
                  ELSE <<Call(c, "send", ShutdownMsg, TRUE),
                         Call(c, "close", NoMsg, c \notin closeRaises)>>
    IN  Flatten([k \in 1..Len(ids) |-> one(ids[k])])

\* The registry closeAllConnections leaves: this.connections.clear().
closeAllRegistry(conns) == deleteConnections(conns, DOMAIN conns)

CloseAllConnections ==
    /\ running
    /\ \E sendRaises \in SUBSET Registered, closeRaises \in SUBSET Registered :
         LET calls == closeAllCalls(sendRaises, closeRaises)
             closed == {calls[k].conn : k \in {j \in 1..Len(calls) :
                                                 calls[j].fn = "close" /\ calls[j].ok}}
         IN  /\ sendRaises \subseteq {c \in Registered : readyState[c] = OPEN}
             /\ closeRaises \subseteq {c \in Registered : readyState[c] = OPEN}
                                      \ sendRaises
             /\ readyState' = closeSocket(readyState, closed)
             /\ pingInterval' = cleanupConnection(pingInterval, Registered)
             /\ pongTimeout' = cleanupConnection(pongTimeout, Registered)
             /\ connections' = closeAllRegistry(connections)
             /\ Record(Op("registry", "closeAllConnections", 0, "", PreAll, calls))
    /\ UNCHANGED <<nextId, isAlive, running, gwUser, supabaseChannels, liveChannels,
                   acked, dropped, created, watch, peerFrames>>

\* shutdown (the SIGTERM / SIGINT handler): prisma.$disconnect(), then
\* process.exit(0).
shutdownCalls == <<>>

Shutdown ==
    /\ running
    /\ running' = FALSE
    /\ Record(Op("registry", "shutdown", 0, "", PreAll, shutdownCalls))
    /\ UNCHANGED <<connections, nextId, isAlive, pingInterval, pongTimeout,
                   readyState, gwUser, supabaseChannels, liveChannels,
                   acked, dropped, created, watch, peerFrames>>

Next ==
    \/ Connect
    \/ HandleMessage
    \/ HeartbeatTick
    \/ PongTimeoutFires
    \/ Janitor
    \/ SocketCloses
    \/ CloseEvent
    \/ ErrorEvent
    \/ SupabaseChange
    \/ BroadcastNotification
    \/ BroadcastNotificationToAll
    \/ BroadcastReceiptEvent
    \/ BroadcastReceiptEventToUsers
    \/ CreateNotification
    \/ BroadcastToAll
    \/ SendToConnection
    \/ CloseAllConnections
    \/ Shutdown

\* One specification per observed class: the same program and environment,
\* a different class recorded.
Spec == InitState("registry") /\ [][Next]_vars
SpecHeartbeat == InitState("heartbeat") /\ [][Next]_vars
SpecGateway == InitState("gateway") /\ [][Next]_vars
SpecNotify == InitState("notify") /\ [][Next]_vars
SpecReceipt == InitState("receipt") /\ [][Next]_vars
SpecTables == InitState("tables") /\ [][Next]_vars
SpecBroadcast == InitState("broadcast") /\ [][Next]_vars
SpecOrder == InitState("order") /\ [][Next]_vars
SpecEvict == InitState("evict") /\ [][Next]_vars
SpecWelcome == InitState("welcome") /\ [][Next]_vars
SpecUsers == InitState("users") /\ [][Next]_vars
SpecCreate == InitState("create") /\ [][Next]_vars
SpecShutdown == InitState("shutdown") /\ [][Next]_vars
SpecUnsub == InitState("unsub") /\ [][Next]_vars
SpecIsolate == InitState("isolate") /\ [][Next]_vars
\* The janitor is a setInterval callback: while the process runs it is run
\* again and again.
SpecJanitor == InitState("janitor") /\ [][Next]_vars /\ WF_vars(Janitor)

TypeOK ==
    /\ DOMAIN connections \subseteq Allocated
    /\ nextId \in 1..(MaxConns + 1)
    /\ \A c \in ConnIds : readyState[c] \in {OPEN, CLOSING, CLOSED}

\* ====================================================================
\* Properties
\* ====================================================================
SubscribeNotifications == Frame(TRUE, "subscribe", "notifications", "")
Evicted(o) == o.op \in {"tick", "pongTimeout"} /\ o.arg = "evict"

\* ---- C1 (specification Spec) ---------------------------------------
C1_Inv ==
    /\ lastOp.op = "connect" => getConnection(lastOp.conn) # {}
    /\ lastOp.op \in {"close", "error"} => getConnection(lastOp.conn) = {}
C1_Step ==
    (lastOp'.op \in {"close", "error"} /\ ~lastOp'.pre.reg)
        => UNCHANGED <<connections, pingInterval, pongTimeout>>
\* C1: after addConnection returns id c, getConnection(c) is defined; after a
\* handler has called removeConnection(c), getConnection(c) is undefined; and
\* removeConnection(c) on an id that is already absent leaves the registry
\* and the timers as they were.
C1_RegisterUnregister == []C1_Inv /\ [][C1_Step]_vars
\* A second removeConnection(c): the close event after the error event.
C1_Witness ==
    /\ lastOp.op = "close"
    /\ ~lastOp.pre.reg
    /\ getConnection(lastOp.conn) = {}

\* ---- C2 (specification SpecNotify) ---------------------------------
\* C2 as stated: broadcastToUser hands the message to exactly the registered
\* connections whose user id equals userId.
C2_Original ==
    (lastOp.op = "broadcastNotification" /\ lastOp.arg # NoUser)
        => Conns(lastOp.calls) =
             {c \in DOMAIN connections : connections[c].userId = lastOp.arg}
\* C2 (amended): broadcastToUser invokes send, once, on exactly the registered
\* connections whose user id equals userId and whose socket is OPEN, and on
\* no other connection.
C2_BroadcastToUser ==
    (lastOp.op = "broadcastNotification" /\ lastOp.arg # NoUser)
        => /\ Conns(lastOp.calls) =
                {c \in DOMAIN connections :
                    connections[c].userId = lastOp.arg /\ readyState[c] = OPEN}
           /\ Len(lastOp.calls) = Cardinality(Conns(lastOp.calls))
           /\ \A k \in 1..Len(lastOp.calls) :
                /\ lastOp.calls[k].fn = "send"
                /\ lastOp.calls[k].msg = NotificationMsg(lastOp.arg)
\* A broadcast that reaches one registered connection and skips another
\* registered connection with an OPEN socket, and one that skips a
\* connection of the target user.
C2_Witness ==
    /\ lastOp.op = "broadcastNotification"
    /\ lastOp.calls # <<>>
    /\ \E c \in DOMAIN connections :
         c \notin Conns(lastOp.calls) /\ readyState[c] = OPEN

\* ---- C3 (specification SpecGateway) --------------------------------
\* C3: a subscribe frame for channel "notifications" on a connection without
\* an authenticated user id is answered with the `error` reply, and the
\* connection's registry entry and subscription set are what they were.
C3_UnauthenticatedSubscribe ==
    (/\ lastOp.op = "message"
     /\ lastOp.arg = SubscribeNotifications
     /\ gwUser[lastOp.conn] = NoUser)
        => /\ lastOp.calls =
                <<Call(lastOp.conn, "send", ErrorMsg(AuthRequired), TRUE)>>
           /\ lastOp.pre = PreOf(lastOp.conn)
C3_Witness ==
    /\ lastOp.op = "message"
    /\ lastOp.arg = SubscribeNotifications
    /\ gwUser[lastOp.conn] = NoUser
    /\ lastOp.pre.reg
    /\ lastOp.pre.subs # {}

\* ---- C4 (specification SpecNotify) ---------------------------------
Anonymous(c) == gwUser[c] = NoUser
\* C4: no broadcast of a notification to a user id (broadcastNotification)
\* invokes send on a connection registered without an authenticated user id,
\* whatever frames the connection has sent before.
C4_AnonymousNeverNotified ==
    lastOp.op = "broadcastNotification"
        => \A k \in 1..Len(lastOp.calls) : ~Anonymous(lastOp.calls[k].conn)
\* A notification is broadcast to a user and handed to that user's connection
\* while an anonymous connection with an OPEN socket holds the key
\* 'notifications' in its subscription set.
C4_Witness ==
    /\ lastOp.op = "broadcastNotification"
    /\ lastOp.calls # <<>>
    /\ \E c \in DOMAIN connections :
         /\ Anonymous(c)
         /\ readyState[c] = OPEN
         /\ "notifications" \in connections[c].subscriptions

\* ---- C5 (specification Spec) ---------------------------------------
\* C5: when the shutdown handler has run (the process has exited), every
\* connection that was registered has been sent the shutdown notice and its
\* socket has been closed.
C5_ShutdownClosesAll ==
    lastOp.op = "shutdown"
        => \A c \in DOMAIN lastOp.pre :
             /\ \E k \in 1..Len(lastOp.calls) :
                  lastOp.calls[k] = Call(c, "send", ShutdownMsg, TRUE)
             /\ readyState[c] # OPEN

\* ---- C6 (specification Spec) ---------------------------------------
SendShutdownAt(calls, c, k) ==
    calls[k].conn = c /\ calls[k].fn = "send" /\ calls[k].msg = ShutdownMsg
CloseAt(calls, c, k) == calls[k].conn = c /\ calls[k].fn = "close"
\* C6 as stated: after closeAllConnections the registry is empty and every
\* connection that was registered has been handed the shutdown message,
\* before its socket was closed.
C6_Original ==
    lastOp.op = "closeAllConnections"
        => /\ connections = <<>>
           /\ \A c \in DOMAIN lastOp.pre :
                \E k \in 1..Len(lastOp.calls) :
                   /\ SendShutdownAt(lastOp.calls, c, k)
                   /\ \A j \in 1..Len(lastOp.calls) :
                        CloseAt(lastOp.calls, c, j) => k < j
\* C6 (amended): after closeAllConnections the registry is empty; every
\* connection that was registered with an OPEN socket has had send invoked
\* with the shutdown message, exactly once and before any close of its
\* socket; a connection whose socket was not OPEN gets no call at all.
C6_CloseAll ==
    lastOp.op = "closeAllConnections"
        => /\ connections = <<>>
           /\ \A c \in DOMAIN lastOp.pre :
                LET mine == CallsTo(lastOp.calls, c)
                IN  IF lastOp.pre[c] = OPEN
                    THEN /\ Len(mine) \in {1, 2}
                         /\ mine[1].fn = "send" /\ mine[1].msg = ShutdownMsg
                         /\ Len(mine) = 2 => (mine[2].fn = "close" /\ mine[1].ok)
                         /\ mine[1].ok => Len(mine) = 2
                    ELSE mine = <<>>
\* closeAllConnections with one OPEN and one not-OPEN connection registered.
C6_Witness ==
    /\ lastOp.op = "closeAllConnections"
    /\ \E c, d \in DOMAIN lastOp.pre : lastOp.pre[c] = OPEN /\ lastOp.pre[d] # OPEN

\* ---- C7 (specification SpecHeartbeat) ------------------------------
C7_Inv ==
    \* the probe arms the timeout and leaves the connection not alive
    /\ (lastOp.op = "tick" /\ lastOp.arg = "probe")
          => /\ pongTimeout[lastOp.conn] /\ ~isAlive[lastOp.conn]
             /\ lastOp.conn \in DOMAIN connections
    \* the timeout firing on a connection still not alive evicts it
    /\ (lastOp.op = "pongTimeout" /\ ~lastOp.pre.alive)
          => /\ lastOp.arg = "evict"
             /\ lastOp.conn \notin DOMAIN connections
             /\ readyState[lastOp.conn] # OPEN
    \* an eviction removes a connection that was registered and terminates
    \* its socket once
    /\ Evicted(lastOp)
          => /\ lastOp.pre.reg
             /\ lastOp.conn \notin DOMAIN connections
             /\ lastOp.calls = <<Call(lastOp.conn, "terminate", NoMsg, TRUE)>>
    \* terminate is only ever called by an eviction
    /\ \A k \in 1..Len(lastOp.calls) :
          lastOp.calls[k].fn = "terminate" => Evicted(lastOp)
    \* no timer of a connection outlives its registry entry
    /\ \A c \in ConnIds \ DOMAIN connections : ~pingInterval[c] /\ ~pongTimeout[c]
C7_Step ==
    \A c \in ConnIds :
       \* an armed timeout of a connection that stays registered goes away
       \* only with liveness evidence
       /\ (pongTimeout[c] /\ ~pongTimeout'[c] /\ c \in DOMAIN connections')
             => isAlive'[c]
       \* a removed connection is never registered again
       /\ (c \in Allocated /\ c \notin DOMAIN connections)
             => c \notin DOMAIN connections'
\* C7: a probe arms the pong timeout; unless the peer supplies liveness
\* evidence the timeout stays armed until it fires, and when it fires the
\* connection is removed from the registry and its socket terminated; the
\* eviction happens once: it removes a registered connection, releases both
\* timers, calls terminate once, and the connection is never registered again.
C7_StaleEviction == []C7_Inv /\ [][C7_Step]_vars
\* The pong timeout evicts a connection whose peer never sent a frame.
C7_Witness ==
    /\ lastOp.op = "pongTimeout"
    /\ lastOp.arg = "evict"
    /\ peerFrames[lastOp.conn] = "none"

\* ---- C8 (specification SpecHeartbeat) ------------------------------
HeartbeatRemoved(o) ==
    o.op \in {"tick", "pongTimeout"} /\ o.arg \in {"evict", "sendfail"}
\* C8 as stated: a connection whose peer has sent `ping` frames and nothing
\* else, and whose socket is OPEN, is not evicted by a probe tick or a pong
\* timeout.
C8_Original ==
    ~(/\ Evicted(lastOp)
      /\ peerFrames[lastOp.conn] = "pings"
      /\ lastOp.pre.rs = OPEN)
C8_Inv ==
    \* a `ping` frame on a registered connection marks it alive and cancels
    \* the pending timeout
    /\ (lastOp.op = "message" /\ IsPing(lastOp.arg) /\ lastOp.pre.reg)
          => /\ isAlive[lastOp.conn] /\ ~pongTimeout[lastOp.conn]
             /\ lastOp.conn \in DOMAIN connections
             /\ lastOp.calls = <<Call(lastOp.conn, "send", PongMsg, TRUE)>>
    \* the heartbeat removes a connection only when it is not alive, or when
    \* the transport raised on the probe
    /\ HeartbeatRemoved(lastOp)
          => (~lastOp.pre.alive \/ lastOp.arg = "sendfail")
    /\ (lastOp.op = "tick" /\ lastOp.arg = "sendfail")
          => lastOp.calls = <<Call(lastOp.conn, "send", PingMsg, FALSE)>>
C8_Step ==
    \A c \in ConnIds :
       \* only a probe tick of c takes its alive flag away
       /\ (isAlive[c] /\ ~isAlive'[c])
             => (lastOp'.op = "tick" /\ lastOp'.conn = c /\ lastOp'.arg # "evict")
       \* a registered, alive connection is removed by no timer callback
       \* except a tick whose probe the transport refused
       /\ (isAlive[c] /\ c \in DOMAIN connections /\ c \notin DOMAIN connections'
             /\ lastOp'.op \in {"tick", "pongTimeout"})
             => lastOp'.arg = "sendfail"
\* C8 (amended): a connection whose peer sends a `ping` frame after every
\* probe, before that probe's timeout fires, and whose transport accepts the
\* probes, is never removed by the heartbeat: each `ping` marks it alive and
\* cancels the pending timeout, only a probe tick marks it not alive, and a
\* tick or timeout removes only a connection that is not alive.
C8_PingKeepsAlive == []C8_Inv /\ [][C8_Step]_vars
\* A `ping` frame answers a pending probe.
C8_Witness ==
    /\ lastOp.op = "message"
    /\ IsPing(lastOp.arg)
    /\ lastOp.pre.reg
    /\ lastOp.pre.timeout
    /\ ~lastOp.pre.alive

\* ---- C9 (specification SpecHeartbeat) ------------------------------
\* C9: a `pong` frame from the peer of a registered connection marks the
\* connection alive and cancels its pending timeout.
C9_PongMarksAlive ==
    (lastOp.op = "message" /\ lastOp.arg.type = "pong" /\ lastOp.pre.reg)
        => isAlive[lastOp.conn] /\ ~pongTimeout[lastOp.conn]

\* ---- C10 (specification SpecReceipt) -------------------------------
\* C10 as stated: a broadcast for receipt R is handed to exactly the
\* registered connections whose subscription set contains R.
C10_Original ==
    lastOp.op = "broadcastReceiptEvent"
        => Conns(lastOp.calls) =
             {c \in DOMAIN connections :
                 lastOp.arg.receiptId \in connections[c].subscriptions}
\* C10 (amended): a broadcast for receipt R invokes send, once, with the
\* receipt_event message carrying R and the event, on exactly the registered
\* connections whose subscription set contains R and whose socket is OPEN.
C10_BroadcastToReceipt ==
    lastOp.op = "broadcastReceiptEvent"
        => /\ Conns(lastOp.calls) =
                {c \in DOMAIN connections :
                    /\ lastOp.arg.receiptId \in connections[c].subscriptions
                    /\ readyState[c] = OPEN}
           /\ Len(lastOp.calls) = Cardinality(Conns(lastOp.calls))
           /\ \A k \in 1..Len(lastOp.calls) :
                /\ lastOp.calls[k].fn = "send"
                /\ lastOp.calls[k].msg =
                     ReceiptEventMsg(lastOp.arg.receiptId, lastOp.arg.event)
\* A subscribed only to R1, B subscribed only to R2, item_added broadcast to
\* R1: one receipt_event for A, nothing for B.
C10_Witness ==
    /\ lastOp.op = "broadcastReceiptEvent"
    /\ lastOp.arg = [receiptId |-> "R1", event |-> "item_added"]
    /\ \E a, b \in DOMAIN connections :
         /\ connections[a].subscriptions = {"R1"}
         /\ connections[b].subscriptions = {"R2"}
         /\ readyState[a] = OPEN /\ readyState[b] = OPEN
         /\ lastOp.calls =
              <<Call(a, "send", ReceiptEventMsg("R1", "item_added"), TRUE)>>

\* ---- C11 (specification SpecTables) --------------------------------
IsMessage(o) == o.op = "message"
Sole(c, msg) == <<Call(c, "send", msg, TRUE)>>
\* C11: on one connection and for every table x there is at most one table
\* subscription for x; a subscribe for x while one is active is answered
\* with `error` and changes nothing; one unsubscribe for x removes it, so
\* that a change on x is no longer forwarded and a later subscribe for x is
\* answered with `subscribed` again.
C11_TableSubscription ==
    /\ \A c \in ConnIds, t \in Tables :
          /\ liveChannels[c][t] <= 1
          /\ liveChannels[c][t] = 1 <=> t \in supabaseChannels[c]
    /\ (IsMessage(lastOp) /\ IsTableFrame(lastOp.arg, "subscribe"))
          => LET c == lastOp.conn
                 t == lastOp.arg.table
             IN  /\ t \in supabaseChannels[c]
                 /\ supabaseChannels[c] = lastOp.pre.tables \cup {t}
                 /\ lastOp.calls =
                      Sole(c, IF t \in lastOp.pre.tables
                              THEN Msg("error", AlreadySubscribed, t)
                              ELSE Msg("subscribed", "table", t))
                 /\ lastOp.pre.reg
                       => connections[c].subscriptions = lastOp.pre.subs
    /\ (IsMessage(lastOp) /\ IsTableFrame(lastOp.arg, "unsubscribe")
           /\ lastOp.arg.table \in lastOp.pre.tables)
          => LET c == lastOp.conn
                 t == lastOp.arg.table
             IN  /\ t \notin supabaseChannels[c]
                 /\ liveChannels[c][t] = 0
                 /\ lastOp.calls = Sole(c, Msg("unsubscribed", "table", t))
    /\ lastOp.op = "change"
          => lastOp.calls = IF lastOp.arg \in lastOp.pre.tables
                            THEN Sole(lastOp.conn, ChangeMsg(lastOp.arg))
                            ELSE <<>>
\* A second subscribe for a table the connection is subscribed to.
C11_Witness ==
    /\ IsMessage(lastOp)
    /\ IsTableFrame(lastOp.arg, "subscribe")
    /\ lastOp.arg.table \in lastOp.pre.tables
    /\ lastOp.calls # <<>>
    /\ lastOp.calls[1].msg.type = "error"

\* ---- C12 (specification SpecTables) --------------------------------
IsReceiptFrame(f, type) ==
    ~Raises(f) /\ f.type = type /\ f.channel = "receipt" /\ f.receiptId # ""
IsNotificationsFrame(f, type) ==
    ~Raises(f) /\ f.type = type /\ f.channel = "notifications"
\* C12: a connection attempt with a missing or invalid credential is
\* registered as an anonymous connection and welcomed with `connected`,
\* authenticated false, userId null; receipt and table subscribe frames are
\* answered and recorded the same way whoever the connection's user is; a
\* notifications subscribe is the only one an anonymous connection is refused.
C12_AnonymousConnection ==
    /\ lastOp.op = "connect"
          => /\ lastOp.conn \in DOMAIN connections
             /\ lastOp.arg \in {"none", "bad"}
                   => /\ connections[lastOp.conn].userId = NoUser
                      /\ lastOp.calls =
                           Sole(lastOp.conn, Msg("connected", "false", "null"))
    /\ (IsMessage(lastOp) /\ IsReceiptFrame(lastOp.arg, "subscribe"))
          => /\ lastOp.calls =
                  Sole(lastOp.conn, Msg("subscribed", "receipt", lastOp.arg.receiptId))
             /\ lastOp.pre.reg
                   => connections[lastOp.conn].subscriptions =
                         lastOp.pre.subs \cup {lastOp.arg.receiptId}
    /\ (IsMessage(lastOp) /\ IsTableFrame(lastOp.arg, "subscribe")
           /\ lastOp.arg.table \notin lastOp.pre.tables)
          => /\ lastOp.calls =
                  Sole(lastOp.conn, Msg("subscribed", "table", lastOp.arg.table))
             /\ lastOp.arg.table \in supabaseChannels[lastOp.conn]
    /\ (IsMessage(lastOp) /\ IsNotificationsFrame(lastOp.arg, "subscribe"))
          => (lastOp.calls[1].msg.type = "error" <=> Anonymous(lastOp.conn))
\* An anonymous, registered connection subscribes to a table and is
\* answered `subscribed`.
C12_Witness ==
    /\ IsMessage(lastOp)
    /\ IsTableFrame(lastOp.arg, "subscribe")
    /\ Anonymous(lastOp.conn)
    /\ lastOp.pre.reg
    /\ lastOp.calls = Sole(lastOp.conn, Msg("subscribed", "table", lastOp.arg.table))

\* ---- C13 (specification SpecGateway) -------------------------------
KnownTypes == {"ping", "subscribe", "unsubscribe"}
StaysUp(o) ==
    /\ readyState[o.conn] = OPEN
    /\ o.pre.reg => /\ o.conn \in DOMAIN connections
                    /\ connections[o.conn].subscriptions = o.pre.subs
\* C13 as stated: a frame that cannot be parsed is answered with the error
\* `Invalid message format`, every parseable frame whose type is not ping,
\* subscribe or unsubscribe with the error `Unknown message type`, and the
\* connection stays open, registered, with its subscriptions unchanged.
C13_Original ==
    /\ (IsMessage(lastOp) /\ ~lastOp.arg.json)
          => /\ lastOp.calls = Sole(lastOp.conn, ErrorMsg(InvalidFormat))
             /\ StaysUp(lastOp)
    /\ (IsMessage(lastOp) /\ lastOp.arg.json /\ lastOp.arg.type \notin KnownTypes)
          => /\ lastOp.calls = Sole(lastOp.conn, ErrorMsg(UnknownType))
             /\ StaysUp(lastOp)
\* C13 (amended): a frame that cannot be parsed, and the parseable frame
\* `null`, are answered with the error `Invalid message format`; every other
\* parseable frame whose type is not ping, subscribe or unsubscribe is
\* answered with the error `Unknown message type`; in each case the
\* connection stays open, registered, with its subscriptions unchanged.
C13_MalformedFrame ==
    /\ (IsMessage(lastOp) /\ (~lastOp.arg.json \/ lastOp.arg.value = "null"))
          => /\ lastOp.calls = Sole(lastOp.conn, ErrorMsg(InvalidFormat))
             /\ StaysUp(lastOp)
    /\ (IsMessage(lastOp) /\ lastOp.arg.json /\ lastOp.arg.value # "null"
           /\ lastOp.arg.type \notin KnownTypes)
          => /\ lastOp.calls = Sole(lastOp.conn, ErrorMsg(UnknownType))
             /\ StaysUp(lastOp)
\* A registered connection with a subscription sends a frame of unknown type.
C13_Witness ==
    /\ IsMessage(lastOp)
    /\ lastOp.arg.json /\ lastOp.arg.type = "pong"
    /\ lastOp.pre.reg
    /\ lastOp.pre.subs # {}

\* ---- C14 (specification SpecBroadcast) -----------------------------
Writable(pre) == pre.reg /\ pre.rs = OPEN
\* C14: sendToConnection returns a boolean and invokes send at most once;
\* it returns true only when the connection is registered, its socket is
\* OPEN and send returned; it returns false when the connection is absent,
\* the socket is not OPEN, or send raised.
C14_SendToConnection ==
    lastOp.op = "sendToConnection"
        => /\ lastOp.ret \in {<<TRUE>>, <<FALSE>>}
           /\ Len(lastOp.calls) <= 1
           /\ lastOp.calls # <<>> <=> Writable(lastOp.pre)
           /\ lastOp.ret[1] <=>
                 (Writable(lastOp.pre) /\ lastOp.calls # <<>> /\ lastOp.calls[1].ok)
           /\ (lastOp.conn \in DOMAIN connections) <=> lastOp.pre.reg
\* send raises on a registered connection with an OPEN socket.
C14_Witness ==
    /\ lastOp.op = "sendToConnection"
    /\ Writable(lastOp.pre)
    /\ lastOp.calls # <<>>
    /\ ~lastOp.calls[1].ok
    /\ lastOp.ret = <<FALSE>>

\* ---- C15 (specification SpecBroadcast) -----------------------------
\* C15: a send that raises, or a send refused because the socket is not
\* OPEN, evicts the connection from the registry.
C15_FailureEvicts ==
    /\ \A k \in 1..Len(lastOp.calls) :
          (lastOp.calls[k].fn = "send" /\ ~lastOp.calls[k].ok)
             => lastOp.calls[k].conn \notin DOMAIN connections
    /\ (lastOp.op = "sendToConnection" /\ lastOp.pre.reg /\ lastOp.pre.rs # OPEN)
          => lastOp.conn \notin DOMAIN connections

\* ---- C16 (specification SpecBroadcast) -----------------------------
Targets(o) ==
    CASE o.op = "broadcastNotification" ->
           {c \in DOMAIN connections : connections[c].userId = o.arg}
      [] o.op = "broadcastNotificationToAll" ->
           {c \in DOMAIN connections : "notifications" \in connections[c].subscriptions}
      [] o.op = "broadcastReceiptEvent" ->
           {c \in DOMAIN connections : o.arg.receiptId \in connections[c].subscriptions}
      [] o.op = "broadcastToAll" -> DOMAIN connections
IsBroadcast(o) ==
    \/ o.op \in {"broadcastNotificationToAll", "broadcastReceiptEvent", "broadcastToAll"}
    \/ o.op = "broadcastNotification" /\ o.arg # NoUser
\* C16: broadcastToUser, broadcastToReceipt, broadcastToNotifications and
\* broadcastToAll return a number: the number of targeted connections whose
\* send returned; send is invoked once on every targeted connection with an
\* OPEN socket, whether or not send raised on another one.
C16_BroadcastCount ==
    IsBroadcast(lastOp)
        => /\ lastOp.ret =
                <<Cardinality({k \in 1..Len(lastOp.calls) : lastOp.calls[k].ok})>>
           /\ Conns(lastOp.calls) = {c \in Targets(lastOp) : readyState[c] = OPEN}
           /\ Len(lastOp.calls) = Cardinality(Conns(lastOp.calls))
           /\ \A k \in 1..Len(lastOp.calls) : lastOp.calls[k].fn = "send"
\* broadcastToAll with two connections: send raises on the first, the second
\* is still handed the message, and the count is 1.
C16_Witness ==
    /\ lastOp.op = "broadcastToAll"
    /\ Len(lastOp.calls) = 2
    /\ ~lastOp.calls[1].ok
    /\ lastOp.calls[2].ok
    /\ lastOp.ret = <<1>>

\* ---- C17 (specification SpecNotify) --------------------------------
\* C17: a notification broadcast to a user is handed only to connections
\* that have `notifications` in their subscription set.
C17_OnlySubscribed ==
    lastOp.op = "broadcastNotification"
        => \A k \in 1..Len(lastOp.calls) :
              "notifications" \in connections[lastOp.calls[k].conn].subscriptions

\* ---- C18 (specification SpecGateway) -------------------------------
C18_Inv ==
    (IsMessage(lastOp) /\ lastOp.ret # <<>>)
        => LET c == lastOp.conn
               key == KeyOf(lastOp.arg)
           IN  /\ lastOp.ret = <<lastOp.pre.reg>>
               /\ (c \in DOMAIN connections) <=> lastOp.pre.reg
               /\ lastOp.pre.reg
                     => (key \in connections[c].subscriptions
                            <=> lastOp.arg.type = "subscribe")
C18_Step ==
    /\ (IsMessage(lastOp') /\ lastOp'.ret = <<FALSE>>) => connections' = connections
    /\ \A c \in Allocated :
          c \notin DOMAIN connections
             => /\ c \notin DOMAIN connections'
                /\ isAlive'[c] = isAlive[c]
                /\ pongTimeout'[c] = pongTimeout[c]
                /\ pingInterval'[c] = pingInterval[c]
\* C18: the registry's subscribe and unsubscribe return true iff the id is
\* registered; on true the key is (subscribe) or is not (unsubscribe) in the
\* connection's subscription set afterwards; on false the registry is
\* unchanged; no step re-creates a removed connection or touches its
\* liveness flag and timers.
C18_SubscribeResult == []C18_Inv /\ [][C18_Step]_vars
\* A subscribe or unsubscribe frame arrives for a connection that has been
\* removed while its socket is still OPEN.
C18_Witness ==
    /\ IsMessage(lastOp)
    /\ lastOp.ret = <<FALSE>>
    /\ ~lastOp.pre.reg

\* ---- C19 (specification SpecTables) --------------------------------
IsUnsubscribe(o) ==
    /\ IsMessage(o)
    /\ \/ IsNotificationsFrame(o.arg, "unsubscribe")
       \/ IsReceiptFrame(o.arg, "unsubscribe")
       \/ IsTableFrame(o.arg, "unsubscribe")
\* C19: an unsubscribe frame for notifications or a receipt id is answered
\* `unsubscribed` and leaves a subscription set that did not hold the key
\* unchanged; an unsubscribe frame for a table without an active
\* subscription gets no reply and changes nothing; no unsubscribe for
\* notifications, a receipt id or a table is answered with `error`.
C19_UnsubscribeIdempotent ==
    IsUnsubscribe(lastOp)
        => LET c == lastOp.conn
               f == lastOp.arg
           IN  /\ \A k \in 1..Len(lastOp.calls) : lastOp.calls[k].msg.type # "error"
               /\ IsTableFrame(f, "unsubscribe")
                     => /\ f.table \notin lastOp.pre.tables
                           => /\ lastOp.calls = <<>>
                              /\ supabaseChannels[c] = lastOp.pre.tables
                              /\ liveChannels[c][f.table] = 0
                        /\ lastOp.pre.reg
                              => connections[c].subscriptions = lastOp.pre.subs
               /\ ~IsTableFrame(f, "unsubscribe")
                     => /\ lastOp.calls =
                             Sole(c, Msg("unsubscribed", f.channel, f.receiptId))
                        /\ supabaseChannels[c] = lastOp.pre.tables
                        /\ lastOp.pre.reg
                              => connections[c].subscriptions =
                                    lastOp.pre.subs \ {KeyOf(f)}
\* An unsubscribe for a receipt id the connection does not hold, on a
\* connection that holds another key.
C19_Witness ==
    /\ IsMessage(lastOp)
    /\ IsReceiptFrame(lastOp.arg, "unsubscribe")
    /\ lastOp.pre.reg
    /\ lastOp.arg.receiptId \notin lastOp.pre.subs
    /\ lastOp.pre.subs # {}

\* ---- C20 (specification SpecOrder) ---------------------------------
\* C20: an event for the key R is handed to a connection's socket only
\* after the `subscribed` reply for R of the subscription in force was
\* handed to that socket.
C20_SubscribedBeforeEvent ==
    lastOp.op = "broadcastReceiptEvent"
        => \A k \in 1..Len(lastOp.calls) :
              lastOp.arg.receiptId \in acked[lastOp.calls[k].conn]
\* An event for R1 is handed to a subscriber of R1.
C20_Witness ==
    /\ lastOp.op = "broadcastReceiptEvent"
    /\ lastOp.arg.receiptId = "R1"
    /\ lastOp.calls # <<>>

\* ---- C21 (specification SpecEvict) ---------------------------------
IsRemoval(o) ==
    \/ o.op \in {"close", "error", "janitor", "closeAllConnections"}
    \/ HeartbeatRemoved(o)
\* The connections a removal acts on.
Affected(o) ==
    CASE o.op = "janitor" -> o.arg
      [] o.op = "closeAllConnections" -> DOMAIN o.pre
      [] OTHER -> {o.conn}
SameEntry(d) ==
    /\ d \in DOMAIN connections'
    /\ connections'[d] = connections[d]
    /\ isAlive'[d] = isAlive[d]
    /\ pingInterval'[d] = pingInterval[d]
    /\ pongTimeout'[d] = pongTimeout[d]
C21_Inv ==
    \* whatever removals came before, and whether or not a transport call of
    \* the step raised, the connections a removal acts on are absent after it
    /\ IsRemoval(lastOp)
          => \A c \in Affected(lastOp) :
                c \notin DOMAIN connections /\ ~pingInterval[c] /\ ~pongTimeout[c]
    /\ \A c \in Allocated \ DOMAIN connections : ~pingInterval[c] /\ ~pongTimeout[c]
C21_Step ==
    \* a removal leaves every other connection as it was
    /\ IsRemoval(lastOp')
          => \A d \in DOMAIN connections \ Affected(lastOp') : SameEntry(d)
    \* a removal of a connection that is already absent changes nothing
    /\ (lastOp'.op \in {"close", "error"} /\ ~lastOp'.pre.reg)
          => UNCHANGED <<connections, isAlive, pingInterval, pongTimeout>>
    /\ (lastOp'.op \in {"janitor", "closeAllConnections"} /\ Affected(lastOp') = {})
          => UNCHANGED <<connections, isAlive, pingInterval, pongTimeout>>
    \* and an absent connection stays absent
    /\ \A c \in Allocated \ DOMAIN connections : c \notin DOMAIN connections'
\* C21: in every interleaving of close events, error events, heartbeat
\* ticks, pong timeouts, janitor passes and closeAllConnections, a removal
\* ends with the connections it acts on absent and their timers released,
\* a removal of an absent connection changes nothing, and no removal changes
\* the entry, subscriptions, liveness flag or timers of another connection.
C21_DuplicateEviction == []C21_Inv /\ [][C21_Step]_vars
\* The error event of a connection that was already removed, its socket
\* closing, while another connection is registered with a probe pending.
C21_Witness ==
    /\ lastOp.op = "error"
    /\ ~lastOp.pre.reg
    /\ lastOp.pre.rs = CLOSING
    /\ \E d \in DOMAIN connections : d # lastOp.conn /\ pongTimeout[d]

\* ---- C22 (specification SpecEvict) ---------------------------------
\* C22: when a close event, an error event or a heartbeat callback has
\* removed a connection from the registry, both of its timers are released
\* and its closure holds no table subscription: no Supabase channel is left
\* that would forward a `change` to it.
C22_ResourcesReleased ==
    ((lastOp.op \in {"close", "error"} \/ HeartbeatRemoved(lastOp)) /\ lastOp.pre.reg)
        => LET c == lastOp.conn
           IN  /\ ~pingInterval[c] /\ ~pongTimeout[c]
               /\ supabaseChannels[c] = {}
               /\ \A t \in Tables : liveChannels[c][t] = 0

\* ---- C23 (specification SpecEvict) ---------------------------------
C23_Inv ==
    \* no timer of a connection is armed once its entry is gone
    /\ \A c \in ConnIds \ DOMAIN connections : ~pingInterval[c] /\ ~pongTimeout[c]
    \* so every tick and every pong timeout that runs belongs to a
    \* registered connection
    /\ lastOp.op \in {"tick", "pongTimeout"} => lastOp.pre.reg
C23_Step ==
    \* whichever step drops an entry leaves both of its timers cancelled
    /\ \A c \in DOMAIN connections :
          c \notin DOMAIN connections' => ~pingInterval'[c] /\ ~pongTimeout'[c]
    \* and no step arms a timer of an absent connection or sends it a probe
    /\ \A c \in Allocated \ DOMAIN connections :
          /\ ~pingInterval'[c] /\ ~pongTimeout'[c]
          /\ lastOp'.op \in {"tick", "pongTimeout"} => lastOp'.conn # c
\* C23: removeConnection and closeAllConnections cancel the probe timer and
\* the pending pong timeout of every connection they drop, in the step that
\* drops it; for a connection absent from the registry no tick and no pong
\* timeout runs, so none sends a probe or changes the registry.
C23_TimersReleased == []C23_Inv /\ [][C23_Step]_vars
\* The error event of a registered connection whose pong timeout is pending
\* has removed it.
C23_Witness ==
    /\ lastOp.op = "error"
    /\ lastOp.pre.reg
    /\ lastOp.pre.timeout
    /\ ~pongTimeout[lastOp.conn]
    /\ ~pingInterval[lastOp.conn]

\* ---- C24 (specification SpecHeartbeat) -----------------------------
Released(c) == c \notin DOMAIN connections /\ ~pingInterval[c] /\ ~pongTimeout[c]
\* C24 as stated: a tick of a connection marked alive marks it not alive,
\* sends a ping and arms the timeout; a tick of a connection not marked
\* alive removes it and terminates its socket without sending a ping.
C24_Original ==
    lastOp.op = "tick"
        => LET c == lastOp.conn
           IN  IF lastOp.pre.alive
               THEN /\ ~isAlive[c]
                    /\ lastOp.calls = Sole(c, PingMsg)
                    /\ pongTimeout[c]
               ELSE /\ Released(c)
                    /\ lastOp.calls = <<Call(c, "terminate", NoMsg, TRUE)>>
\* C24 (amended): a tick runs only for a registered connection.  If the
\* connection is not marked alive it is removed and its socket terminated,
\* and no ping is sent.  If it is marked alive it is marked not alive, and:
\* when its socket is OPEN and accepts the send, one ping is sent and the
\* timeout is armed; when its socket is not OPEN, nothing is sent and no
\* timeout is armed; when the send raises, the connection is removed from
\* the registry, without a timeout and without terminating the socket.
C24_ProbeTick ==
    lastOp.op = "tick"
        => LET c == lastOp.conn
           IN  /\ lastOp.pre.reg
               /\ IF ~lastOp.pre.alive
                  THEN /\ Released(c)
                       /\ lastOp.calls = <<Call(c, "terminate", NoMsg, TRUE)>>
                       /\ readyState[c] # OPEN
                  ELSE /\ ~isAlive[c]
                       /\ readyState[c] = lastOp.pre.rs
                       /\ CASE lastOp.pre.rs # OPEN ->
                                 /\ lastOp.calls = <<>>
                                 /\ c \in DOMAIN connections
                                 /\ ~pongTimeout[c] /\ pingInterval[c]
                            [] lastOp.pre.rs = OPEN /\ lastOp.arg = "probe" ->
                                 /\ lastOp.calls = Sole(c, PingMsg)
                                 /\ c \in DOMAIN connections
                                 /\ pongTimeout[c] /\ pingInterval[c]
                            [] OTHER ->
                                 /\ lastOp.calls = <<Call(c, "send", PingMsg, FALSE)>>
                                 /\ Released(c)
\* A tick of a connection that is marked alive and whose socket is closing.
C24_Witness ==
    /\ lastOp.op = "tick"
    /\ lastOp.pre.alive
    /\ lastOp.pre.rs # OPEN
    /\ lastOp.calls = <<>>
    /\ ~isAlive[lastOp.conn]

\* ---- C25 (specification SpecJanitor) -------------------------------
C25_Step ==
    lastOp'.op = "janitor"
        => \A c \in DOMAIN connections :
              IF readyState[c] # OPEN
              THEN c \notin DOMAIN connections'
              ELSE SameEntry(c)
\* C25: a janitor pass removes every registered connection whose socket is
\* not OPEN and leaves the entry, subscriptions, liveness flag and timers
\* of every connection whose socket is OPEN as they were; and, with nothing
\* but the janitor being certain to run, a registered connection whose
\* socket is not OPEN is eventually absent from the registry for as long as
\* the process runs.
C25_JanitorRemovesDead ==
    /\ [][C25_Step]_vars
    /\ \A c \in ConnIds :
          (c \in DOMAIN connections /\ readyState[c] # OPEN)
             ~> (c \notin DOMAIN connections \/ ~running)
\* A janitor pass has removed a connection and left a subscribed connection
\* with an OPEN socket registered.
C25_Witness ==
    /\ lastOp.op = "janitor"
    /\ lastOp.arg # {}
    /\ \E d \in DOMAIN connections :
          readyState[d] = OPEN /\ connections[d].subscriptions # {}

\* ---- C26 (specification SpecWelcome) -------------------------------
\* C26: the first message handed to the socket of every accepted connection
\* is `connected`, with authenticated = (a user id was verified for it) and
\* userId = that id or null; no reply, probe, broadcast, change or shutdown
\* message is handed to a socket before it; and a socket is handed nothing
\* before its connection is accepted.
C26_ConnectedFirst ==
    \A c \in ConnIds :
       /\ c \in Allocated
             => /\ firstMsg[c].first = ConnectedMsg(gwUser[c])
                /\ c \in DOMAIN connections => connections[c].userId = gwUser[c]
       /\ c \notin Allocated => firstMsg[c] = [first |-> NoMsg, more |-> FALSE]
\* An authenticated and an anonymous connection have both been handed
\* messages after their `connected` message.
C26_Witness ==
    \E c, d \in Allocated :
       /\ firstMsg[c] = [first |-> Msg("connected", "true", "u1"), more |-> TRUE]
       /\ firstMsg[d] = [first |-> Msg("connected", "false", "null"), more |-> TRUE]

\* ---- C27 (specification SpecTables) --------------------------------
\* C27: a subscribe frame with channel "receipt" or "resource" and a
\* resource id is answered with `subscribed`, and after it the connection's
\* subscription set holds the key of that resource, whoever the
\* connection's user is.
C27_ReceiptSubscribe ==
    (/\ IsMessage(lastOp)
     /\ ~Raises(lastOp.arg)
     /\ lastOp.arg.type = "subscribe"
     /\ lastOp.arg.channel \in {"receipt", "resource"}
     /\ lastOp.arg.receiptId # "")
        => /\ Len(lastOp.calls) = 1
           /\ lastOp.calls[1].msg.type = "subscribed"
           /\ lastOp.conn \in DOMAIN connections
           /\ lastOp.arg.receiptId \in connections[lastOp.conn].subscriptions

\* ---- C28 (specification SpecTables) --------------------------------
RepliesError(o) ==
    IsMessage(o) /\ o.calls # <<>> /\ o.calls[1].msg.type = "error"
C28_Inv ==
    \* the frames that are refused are answered with one `error` reply
    /\ (/\ IsMessage(lastOp)
        /\ \/ Raises(lastOp.arg)
           \/ lastOp.arg.type \notin KnownTypes
           \/ IsNotificationsFrame(lastOp.arg, "subscribe") /\ Anonymous(lastOp.conn)
           \/ IsTableFrame(lastOp.arg, "subscribe")
                 /\ lastOp.arg.table \in lastOp.pre.tables
           \/ /\ lastOp.arg.type \in {"subscribe", "unsubscribe"}
              /\ lastOp.arg.channel = "" /\ lastOp.arg.table = "")
          => RepliesError(lastOp) /\ Len(lastOp.calls) = 1
    \* and after an `error` reply the connection is as it was, socket OPEN
    /\ RepliesError(lastOp)
          => /\ PreOf(lastOp.conn) = lastOp.pre
             /\ readyState[lastOp.conn] = OPEN
C28_Step ==
    RepliesError(lastOp')
        => UNCHANGED <<connections, isAlive, pingInterval, pongTimeout,
                       readyState, supabaseChannels, liveChannels>>
\* C28: a frame that is refused (a notifications subscribe on an anonymous
\* connection, a subscribe or unsubscribe naming neither a channel nor a
\* table, a subscribe for a table already subscribed, a frame of unknown
\* type, a frame that is not parseable) is answered with `error`, and a
\* frame answered with `error` changes neither the registry, nor a
\* liveness flag or timer, nor the table subscriptions, and leaves the
\* socket OPEN.
C28_ErrorChangesNothing == []C28_Inv /\ [][C28_Step]_vars
\* An anonymous connection holding a receipt subscription and a table
\* subscription is refused a notifications subscribe.
C28_Witness ==
    /\ RepliesError(lastOp)
    /\ lastOp.arg = SubscribeNotifications
    /\ lastOp.pre.reg
    /\ lastOp.pre.subs # {}
    /\ lastOp.pre.tables # {}

\* ---- C29 (specification SpecUsers) ---------------------------------
\* The registered connections of user u whose socket is OPEN.
WritableOf(u) ==
    {c \in DOMAIN connections : connections[c].userId = u /\ readyState[c] = OPEN}
\* C29: broadcastReceiptEventToUsers invokes send with the receipt_event
\* message on every registered connection with an OPEN socket of every
\* listed user id, once per occurrence of the id in the list, whatever the
\* connection's subscription set holds; on no connection of a user that is
\* not listed; and returns the number of list elements for which at least
\* one send returned.
C29_ToUsers ==
    lastOp.op = "broadcastReceiptEventToUsers"
        => LET ids == lastOp.arg.userIds
               calls == lastOp.calls
               listed == {ids[k] : k \in 1..Len(ids)}
           IN  /\ Conns(calls) = UNION {WritableOf(u) : u \in listed}
               /\ \A k \in 1..Len(calls) :
                     /\ calls[k].fn = "send"
                     /\ calls[k].msg =
                          ReceiptEventMsg(lastOp.arg.receiptId, lastOp.arg.event)
               /\ \A c \in Conns(calls) :
                     Len(CallsTo(calls, c)) =
                        Cardinality({k \in 1..Len(ids) : ids[k] = connections[c].userId})
               /\ lastOp.ret =
                     <<Cardinality({k \in 1..Len(ids) :
                          \E c \in WritableOf(ids[k]) :
                             \E j \in 1..Len(calls) :
                                calls[j].conn = c /\ calls[j].ok})>>
\* The event for R1 goes to user u1 alone: u1's connection, which is not
\* subscribed to R1, is handed it; the connection of u2, which is
\* subscribed to R1, is not.
C29_Witness ==
    /\ lastOp.op = "broadcastReceiptEventToUsers"
    /\ lastOp.arg.userIds = <<"u1">>
    /\ lastOp.ret = <<1>>
    /\ \E c, d \in DOMAIN connections :
          /\ connections[c].userId = "u1"
          /\ "R1" \notin connections[c].subscriptions
          /\ connections[d].userId = "u2"
          /\ "R1" \in connections[d].subscriptions
          /\ readyState[d] = OPEN
          /\ Conns(lastOp.calls) = {c}

\* ---- C30 (specification SpecCreate) --------------------------------
IsCreate(o) == o.op = "createNotification"
C30_Inv ==
    IsCreate(lastOp)
        => LET a == lastOp.arg
           IN  /\ lastOp.calls # <<>> => a.persisted
               /\ IF a.persisted
                  THEN \* the row is there and is what the caller gets, whether
                       \* the push reached nobody, failed or raised
                       /\ created = Append(lastOp.pre.rows, a.userId)
                       /\ lastOp.ret =
                            <<[userId |-> a.userId, row |-> Len(created)]>>
                       /\ a.raise => lastOp.calls = <<>>
                       /\ ~a.raise =>
                             Conns(lastOp.calls) =
                                {c \in DOMAIN connections :
                                    /\ connections[c].userId = a.userId
                                    /\ readyState[c] = OPEN}
                  ELSE /\ created = lastOp.pre.rows
                       /\ lastOp.ret = <<>>
C30_Step ==
    \* rows are added one at a time, by a createNotification whose create
    \* resolved, and never removed or rewritten
    /\ Len(created') >= Len(created)
    /\ Len(created') <= Len(created) + 1
    /\ SubSeq(created', 1, Len(created)) = created
    /\ created' # created => IsCreate(lastOp') /\ lastOp'.arg.persisted
\* C30: createNotification pushes only after prisma.notification.create has
\* resolved; when it resolved, the row stays persisted and is returned to
\* the caller whether the push reached no connection, a send raised or the
\* push itself raised, and one call persists one row; no step removes or
\* rewrites a row.
C30_PersistThenPush == []C30_Inv /\ [][C30_Step]_vars
\* The row is persisted and returned although the only send of the push
\* raised.
C30_Witness ==
    /\ IsCreate(lastOp)
    /\ lastOp.arg.persisted
    /\ Len(lastOp.calls) = 1
    /\ ~lastOp.calls[1].ok
    /\ lastOp.ret = <<[userId |-> lastOp.arg.userId, row |-> Len(created)]>>
    /\ created # <<>>


\* ---- C31 (specification SpecShutdown) -----------------------------
\* A call of the socket of c among the transport calls of a step failed.
FailedAt(calls, c) == \E k \in 1..Len(calls) : calls[k].conn = c /\ ~calls[k].ok
C31_Inv ==
    \* every invocation completes: the registry is empty and no timer of any
    \* connection is left armed, whichever sends and closes raised
    /\ lastOp.op = "closeAllConnections"
          => /\ connections = <<>>
             /\ \A c \in ConnIds : ~pingInterval[c] /\ ~pongTimeout[c]
             \* a connection that was registered with an OPEN socket has had
             \* the shutdown message sent and, when the send returned, close
             \* called, whatever happened to the connections before it
             /\ \A c \in DOMAIN lastOp.pre :
                   lastOp.pre[c] = OPEN
                     => \E k \in 1..Len(lastOp.calls) :
                          /\ SendShutdownAt(lastOp.calls, c, k)
                          /\ lastOp.calls[k].ok
                               => /\ k < Len(lastOp.calls)
                                  /\ CloseAt(lastOp.calls, c, k + 1)
             \* only connections that were registered are called
             /\ Conns(lastOp.calls) \subseteq DOMAIN lastOp.pre
    \* over all invocations, no socket is handed the shutdown message twice
    /\ \A c \in ConnIds : shutdowns[c] <= 1
\* A connection the registry has dropped is never registered again.
C31_Step ==
    \A c \in ConnIds :
       (c < nextId /\ c \notin DOMAIN connections) => c \notin DOMAIN connections'
\* C31: closeAllConnections runs to completion for every registered
\* connection whichever sends or closes raise, leaving the registry empty
\* and every timer released, and over any number of invocations each
\* connection is handed the shutdown message at most once.
C31_CloseAllCompletes == []C31_Inv /\ [][C31_Step]_vars
\* closeAllConnections in which a send or close of the first of two
\* registered connections raised and the second was still handed the
\* shutdown message, once, and closed.
C31_Witness ==
    /\ lastOp.op = "closeAllConnections"
    /\ \E c, d \in DOMAIN lastOp.pre :
          /\ c < d
          /\ FailedAt(lastOp.calls, c)
          /\ \E k \in 1..Len(lastOp.calls) : CloseAt(lastOp.calls, d, k)
          /\ shutdowns[d] = 1


\* ---- C32 (specification SpecBroadcast) -----------------------------
\* The registry's sends: sendToConnection and the broadcasts built on it.
IsRegistrySend(o) == o.class \in {"notify", "receipt", "all", "send"}
\* C32: sendToConnection and every broadcast invoke send only on sockets of
\* connections that are in the registry at that moment; a connection that
\* is not registered is handed nothing, sendToConnection returns false for
\* it, and no broadcast counts it.
C32_OnlyRegistered ==
    IsRegistrySend(lastOp)
        => /\ Conns(lastOp.calls) \subseteq DOMAIN connections
           /\ (lastOp.op = "sendToConnection" /\ ~lastOp.pre.reg)
                 => (lastOp.calls = <<>> /\ lastOp.ret = <<FALSE>>)
           /\ IsBroadcast(lastOp)
                 => lastOp.ret =
                      <<Cardinality({c \in DOMAIN connections :
                           \E k \in 1..Len(lastOp.calls) :
                              lastOp.calls[k].conn = c /\ lastOp.calls[k].ok})>>
\* broadcastToAll while a connection the registry has dropped still has an
\* OPEN socket: the registered connection is handed the message, the
\* dropped one is not, and the count is 1.
C32_Witness ==
    /\ lastOp.op = "broadcastToAll"
    /\ \E c \in Allocated \ DOMAIN connections, d \in DOMAIN connections :
          /\ readyState[c] = OPEN
          /\ Conns(lastOp.calls) = {d}
    /\ lastOp.ret = <<1>>


\* ---- C33 (specification SpecNotify) --------------------------------
\* C33: the key `notifications` is in the subscription set of authenticated
\* connections only, whatever frames a connection has sent, and
\* broadcastNotificationToAll never invokes send on a connection registered
\* without an authenticated user id.
C33_NotificationsKeyAuthenticated ==
    /\ \A c \in DOMAIN connections :
          "notifications" \in connections[c].subscriptions
              => connections[c].userId # NoUser
    /\ lastOp.op = "broadcastNotificationToAll"
          => \A k \in 1..Len(lastOp.calls) : ~Anonymous(lastOp.calls[k].conn)


\* ---- C34 (specification SpecGateway) -------------------------------
\* A notifications or receipt frame answered with a reply of the given type.
Acknowledged(o, type) ==
    /\ IsMessage(o)
    /\ o.arg.table = ""
    /\ o.calls # <<>>
    /\ o.calls[1].msg.type = type
\* C34: when the gateway replies `subscribed` to a notifications or receipt
\* frame, the connection is in the registry and its subscription set holds
\* the key; when it replies `unsubscribed`, no registered subscription set
\* of the connection holds the key.
C34_AckMatchesRegistry ==
    /\ Acknowledged(lastOp, "subscribed")
          => /\ lastOp.conn \in DOMAIN connections
             /\ KeyOf(lastOp.arg) \in connections[lastOp.conn].subscriptions
    /\ Acknowledged(lastOp, "unsubscribed")
          => \/ lastOp.conn \notin DOMAIN connections
             \/ KeyOf(lastOp.arg) \notin connections[lastOp.conn].subscriptions


\* ---- C35 (specification SpecEvict) ---------------------------------
\* C35: every removal by the heartbeat supervisor (a tick that finds the
\* connection not alive, a pong timeout, a probe whose send raises, a
\* janitor pass) terminates the socket of each connection it removes in the
\* same step, and leaves no removed connection with an OPEN socket.
C35_RemovalForceCloses ==
    (HeartbeatRemoved(lastOp) \/ lastOp.op = "janitor")
        => \A c \in Affected(lastOp) :
              /\ \E k \in 1..Len(lastOp.calls) :
                    lastOp.calls[k].conn = c /\ lastOp.calls[k].fn = "terminate"
              /\ readyState[c] # OPEN


\* ---- C36 (specification SpecUnsub) ---------------------------------
\* C36: once a connection's socket has been handed `unsubscribed` for the
\* receipt R, no broadcast to the subscribers of R invokes send on it until
\* it has been handed `subscribed` for R again, whatever steps come between.
C36_NoEventAfterUnsubscribed ==
    lastOp.op = "broadcastReceiptEvent"
        => \A k \in 1..Len(lastOp.calls) :
              lastOp.arg.receiptId \notin dropped[lastOp.calls[k].conn]
\* An event for R1 is handed to one subscriber while another connection,
\* registered with an OPEN socket, has unsubscribed from R1 and is skipped.
C36_Witness ==
    /\ lastOp.op = "broadcastReceiptEvent"
    /\ lastOp.arg.receiptId = "R1"
    /\ \E c, d \in DOMAIN connections :
          /\ "R1" \in dropped[c]
          /\ readyState[c] = OPEN
          /\ Conns(lastOp.calls) = {d}
          /\ c # d


\* ---- C37 (specification SpecIsolate) -------------------------------
\* Everything the registry and the gateway hold for connection d is the
\* same after the step as before it.
Untouched(d) ==
    /\ (d \in DOMAIN connections') <=> (d \in DOMAIN connections)
    /\ d \in DOMAIN connections => connections'[d] = connections[d]
    /\ isAlive'[d] = isAlive[d]
    /\ pingInterval'[d] = pingInterval[d]
    /\ pongTimeout'[d] = pongTimeout[d]
    /\ gwUser'[d] = gwUser[d]
    /\ supabaseChannels'[d] = supabaseChannels[d]
    /\ liveChannels'[d] = liveChannels[d]
C37_Step ==
    lastOp'.conn \in ConnIds
        => \A d \in ConnIds \ {lastOp'.conn} : Untouched(d)
\* C37: a connect, an inbound frame of any kind, a close or error event, a
\* probe tick and a pong timeout of connection c leave, for every other
\* connection, its registry entry with user id and subscription set, its
\* liveness flag, both timers and its table subscriptions as they were.
C37_OthersUntouched == [][C37_Step]_vars
\* A close event of one connection while another is registered with a
\* subscription, a table subscription and a pending pong timeout.
C37_Witness ==
    /\ lastOp.op = "close"
    /\ \E d \in DOMAIN connections \ {lastOp.conn} :
          /\ connections[d].subscriptions # {}
          /\ supabaseChannels[d] # {}
          /\ pongTimeout[d]
          /\ ~isAlive[d]


\* ---- C38 (specification SpecHeartbeat) -----------------------------
C38_Inv ==
    \* a pong timeout is armed only on a connection marked not alive
    /\ \A c \in DOMAIN connections : pongTimeout[c] => ~isAlive[c]
    \* markConnectionAlive, called for a `ping` frame of a registered
    \* connection, leaves it alive with no timeout armed
    /\ (IsMessage(lastOp) /\ gatewayMarksAlive(lastOp.arg) /\ lastOp.pre.reg)
          => isAlive[lastOp.conn] /\ ~pongTimeout[lastOp.conn]
    \* a pong timeout that fires on a connection marked alive removes nothing
    \* (by the first conjunct no timeout is armed on such a connection, so
    \* this firing never occurs: the callback's test is never false)
    /\ (lastOp.op = "pongTimeout" /\ lastOp.pre.alive)
          => /\ lastOp.arg = "alive"
             /\ lastOp.calls = <<>>
             /\ lastOp.conn \in DOMAIN connections
C38_Step ==
    \A c \in DOMAIN connections :
       \* the step that marks c alive leaves no timeout of c armed
       /\ (~isAlive[c] /\ isAlive'[c]) => ~pongTimeout'[c]
       \* a pong timeout of a connection marked alive drops no entry
       /\ (lastOp'.op = "pongTimeout" /\ lastOp'.conn = c /\ isAlive[c])
             => connections' = connections
\* C38: on every registered connection a pong timeout is armed only while
\* the connection is marked not alive; markConnectionAlive sets the flag and
\* cancels the pending timeout in one step; and a pong timeout firing on a
\* connection marked alive removes nothing.
C38_TimeoutOnlyWhileNotAlive == []C38_Inv /\ [][C38_Step]_vars
\* A `ping` frame has just answered the pending probe of one connection,
\* which is alive with no timeout armed, while the probe of another
\* registered connection is still pending.
C38_Witness ==
    /\ IsMessage(lastOp)
    /\ gatewayMarksAlive(lastOp.arg)
    /\ lastOp.pre.timeout
    /\ isAlive[lastOp.conn] /\ ~pongTimeout[lastOp.conn]
    /\ \E d \in DOMAIN connections \ {lastOp.conn} : pongTimeout[d] /\ ~isAlive[d]

====
